---- MODULE Spec2Model ----
(***************************************************************************)
(* State-machine model of the fishing game session engine                  *)
(* (src/src/server/handlers/commands.ts).                                  *)
(*                                                                         *)
(* Time is the value of Date.now() in milliseconds.  The process is one    *)
(* Node.js event loop: a step of the model is one run-to-completion piece  *)
(* of JavaScript (a command up to its next await, the continuation of an   *)
(* await, or a timer callback).  Player records are objects on a heap; the *)
(* `players` map, the closures of timers and the suspended handlers hold   *)
(* references to them.                                                     *)
(***************************************************************************)
EXTENDS Integers, Sequences, FiniteSets, TLC

VARIABLES
    now,                    \* Date.now()
    heap,                   \* PlayerState objects by reference
    players,                \* Map<scopedKey, PlayerState>
    saved,                  \* the save files on disk, by scopedKey
    timers,                 \* pending setTimeout handles of the event loop
    tugTimers,              \* Map<scopedKey, handle>
    decayTimers,            \* Map<scopedKey, handle>
    interactionLock,        \* the single interaction lock, or null
    lastCommandAt,          \* Map<scopedKey, ms>
    lastGlobalCommandAt,    \* Map<channel, ms>
    userCommandCooldownMs,
    globalCommandCooldownMs,
    activeEvents,           \* GlobalEvent[]
    eventTimers,            \* Map<event id, handle>
    castSeq,                \* history: accepted casts so far, and each record's last one
    sessionOpenedAt,        \* history: when the lock that is held was created
    valueBuffTimers,        \* Map<scopedKey, TimedBuff[]>
    xpBuffTimers,           \* Map<scopedKey, TimedBuff[]>
    charmTimers,            \* Map<scopedKey, handle>
    storeRotation,          \* the cached store rotation, or null
    storeRotationVersion,   \* the fingerprint the rotation was made under
    lastStoreRefresh,       \* Map<scopedKey, ms>
    catalogOverrides,       \* data/catalog.json as require() yields it, or null
    themeSent,
    uuid,                   \* the next value of randomUUID()
    tradeBoard,             \* the listings of the trade board, in memory
    tradeLoadedChan,        \* the channel whose board was loaded, if any
    inflight,               \* async calls suspended on file I/O
    issued,                 \* history: commands and requests received so far
    out,                    \* events emitted by the last step
    act                     \* what the last step was

vars == <<now, heap, players, saved, timers, tugTimers, decayTimers,
          interactionLock, lastCommandAt, lastGlobalCommandAt,
          userCommandCooldownMs, globalCommandCooldownMs, activeEvents,
          eventTimers, castSeq, sessionOpenedAt,
          themeSent, catalogOverrides, lastStoreRefresh, storeRotationVersion,
          storeRotation, charmTimers, xpBuffTimers, valueBuffTimers, uuid, tradeBoard,
          tradeLoadedChan, inflight, issued, out, act>>

----------------------------------------------------------------------------
(* Bounds of the model *)

StartTime == 100000000
MaxTime == 30000
MaxInflight == 2
MaxCommands == 4
TickGrid == 5000

(* Callers and inputs *)

Usernames == {"Alice", "bob"}
Channels == {"x", "y"}

(* String.prototype.toLowerCase on the names the model uses *)
toLowerCase(s) ==
    CASE s = "Alice" -> "alice"
      [] s = "Bag of Bait" -> "bag of bait"
      [] s = "Shiny Lure" -> "shiny lure"
      [] s = "Mystic Bobber" -> "mystic bobber"
      [] s = "Aurora Float" -> "aurora float"
      [] s = "Inventory Expansion" -> "inventory expansion"
      [] s = "Tide Token" -> "tide token"
      [] s = "Gleam Polish" -> "gleam polish"
      [] s = "Scholar's Note" -> "scholar's note"
      [] s = "Survey Beacon" -> "survey beacon"
      [] s = "Chest Key" -> "chest key"
      [] s = "Prospector's Lens" -> "prospector's lens"
      [] s = "Crafting Booster Kit" -> "crafting booster kit"
      [] s = "Enchanter's Spark" -> "enchanter's spark"
      [] s = "Scroll of Looting (Common)" -> "scroll of looting (common)"
      [] s = "Scroll of Looting (Rare)" -> "scroll of looting (rare)"
      [] s = "Scroll of Looting (Epic/Mythic)" -> "scroll of looting (epic/mythic)"
      [] s = "Scroll of Looting (Legendary)" -> "scroll of looting (legendary)"
      [] s = "Carbon Pro Skin" -> "carbon pro skin"
      [] s = "Neon Flux Skin" -> "neon flux skin"
      [] s = "Aurora Drift Skin" -> "aurora drift skin"
      [] s = "Carbon Pro" -> "carbon pro"
      [] s = "Neon Flux" -> "neon flux"
      [] s = "Aurora Drift" -> "aurora drift"
      [] s = "Classic Oak" -> "classic oak"
      [] s = "Bob" -> "bob"
      [] s = "Hook Stabilizer" -> "hook stabilizer"
      [] s = "Echo Reel" -> "echo reel"
      [] s = "Luck Charm" -> "luck charm"
      [] s = "Lucky Coin" -> "lucky coin"
      [] s = "Trader's Mark" -> "trader's mark"
      [] s = "Waypoint Charter" -> "waypoint charter"
      [] s = "Enchanted Compass" -> "enchanted compass"
      [] s = "Treasure Map" -> "treasure map"
      [] s = "Old Manual" -> "old manual"
      [] s = "Reinforced Rod" -> "reinforced rod"
      [] s = "Lucky Lure" -> "lucky lure"
      [] s = "Fishing Journal" -> "fishing journal"
      [] s = "Minnow" -> "minnow"
      [] OTHER -> s

(* Number(raw.replace(/[^0-9.]/g, '')) on the arguments the model sends *)
Number(raw) ==
    CASE raw = "0" -> 0
      [] raw = "2" -> 2
      [] raw = "1" -> 1
      [] raw = "x2" -> 2
      [] raw = "5" -> 5
      [] raw = "x10" -> 10
      [] raw = "50%" -> 50
      [] raw = "10" -> 10
      [] raw = "600" -> 600
      [] OTHER -> 0

null == [null |-> TRUE]
undefined == [undefined |-> TRUE]

(* JavaScript Map: a function whose domain is the set of keys present *)
EmptyMap == [k \in {} |-> 0]
MapHas(m, k) == k \in DOMAIN m
MapSet(m, k, v) == [x \in (DOMAIN m) \cup {k} |-> IF x = k THEN v ELSE m[x]]
MapDelete(m, k) == [x \in (DOMAIN m) \ {k} |-> m[x]]

----------------------------------------------------------------------------
(* Program constants *)

tugMinDelayMs == 2000
tugMaxDelayMs == 6000
tugResponseWindowMs == 10000
tugFailSafeBufferMs == 2000
DEFAULT_USER_COOLDOWN_MS == 35 * 1000
DEFAULT_GLOBAL_COOLDOWN_MS == 0
interactionTimeoutMs == 25 * 1000
maxInteractionRefreshes == 2
maxDoubleStacks == 3
baseGoldPerCatch == 6
inventoryCapBase == 15
inventoryCapMax == 30
inventoryCapStep == 5

rarityOrder == <<"common", "uncommon", "rare", "epic", "legendary", "mythic", "relic">>

(* rarityOrder.indexOf(r): 0-based, -1 when absent *)
rarityIndexOf(r) ==
    IF \E i \in 1..Len(rarityOrder) : rarityOrder[i] = r
    THEN (CHOOSE i \in 1..Len(rarityOrder) : rarityOrder[i] = r) - 1
    ELSE -1

(* Weights are kept in hundredths (relic is 0.2 and 0.35 in the source). *)
coveRarityConfigs == <<
    [rarity |-> "common",    weight |-> 5200, valueRange |-> <<5, 12>>,     xp |-> 6],
    [rarity |-> "uncommon",  weight |-> 2600, valueRange |-> <<12, 22>>,    xp |-> 13],
    [rarity |-> "rare",      weight |-> 1200, valueRange |-> <<24, 40>>,    xp |-> 24],
    [rarity |-> "epic",      weight |-> 600,  valueRange |-> <<42, 70>>,    xp |-> 40],
    [rarity |-> "legendary", weight |-> 300,  valueRange |-> <<72, 110>>,   xp |-> 60],
    [rarity |-> "mythic",    weight |-> 100,  valueRange |-> <<120, 220>>,  xp |-> 95],
    [rarity |-> "relic",     weight |-> 20,   valueRange |-> <<240, 420>>,  xp |-> 150] >>

emberRarityConfigs == <<
    [rarity |-> "common",    weight |-> 4200, valueRange |-> <<12, 26>>,    xp |-> 10],
    [rarity |-> "uncommon",  weight |-> 2400, valueRange |-> <<22, 40>>,    xp |-> 18],
    [rarity |-> "rare",      weight |-> 1500, valueRange |-> <<42, 80>>,    xp |-> 32],
    [rarity |-> "epic",      weight |-> 900,  valueRange |-> <<70, 120>>,   xp |-> 55],
    [rarity |-> "legendary", weight |-> 600,  valueRange |-> <<110, 180>>,  xp |-> 85],
    [rarity |-> "mythic",    weight |-> 400,  valueRange |-> <<160, 280>>,  xp |-> 130],
    [rarity |-> "relic",     weight |-> 35,   valueRange |-> <<320, 520>>,  xp |-> 200] >>

(* Of each loot list only the first name is kept: the name the model draws. *)
coveLootTable ==
    [common |-> "Minnow", uncommon |-> "Sunfish", rare |-> "Salmon",
     epic |-> "Golden Trout", legendary |-> "Kraken Scale",
     mythic |-> "Celestial Carp", relic |-> "Prismatic Relic"]

emberLootTable ==
    [common |-> "Glass Minnow", uncommon |-> "Fire Guppy", rare |-> "Blazefin Tuna",
     epic |-> "Phoenix Snapper", legendary |-> "Ifrit Ray",
     mythic |-> "Ashen Leviathan", relic |-> "Emberheart Core"]

(* Multipliers are kept in hundredths. *)
baseBiomes == <<
    [key |-> "cove", rarityConfigs |-> coveRarityConfigs, lootTable |-> coveLootTable,
     goldMultiplier |-> 100, xpMultiplier |-> 100, tier |-> 1],
    [key |-> "ember-reef", rarityConfigs |-> emberRarityConfigs, lootTable |-> emberLootTable,
     goldMultiplier |-> 120, xpMultiplier |-> 115, tier |-> 2] >>

startBiomeKey == "cove"

(* Math.round of the non-negative rational n / d *)
MathRound(n, d) == (2 * n + d) \div (2 * d)

MathMax(a, b) == IF a >= b THEN a ELSE b
MathMin(a, b) == IF a <= b THEN a ELSE b

(* The draws of Math.random() the model explores *)
DrawnRarities == {"common", "uncommon"}
DrawnEtas == {tugMinDelayMs, tugMaxDelayMs}
DrawnValues == {"min"}
Draws == [rarity : DrawnRarities, value : DrawnValues]

----------------------------------------------------------------------------
(* Keys, records, the heap *)

ids(username, channel) ==
    [safeUser |-> toLowerCase(username),
     safeChannel |-> toLowerCase(channel),
     scopedKey |-> <<toLowerCase(channel), toLowerCase(username)>>]

ScopedKeys == { ids(u, c).scopedKey : u \in Usernames, c \in Channels }

materialDefaults ==
    [m \in {"tide-shard", "ember-fragment", "abyssal-ink", "frost-crystal",
            "astral-fiber", "cosmic-dust"} |-> 0]

essenceDefaults ==
    [e \in {"spark-essence", "echo-essence", "mythic-essence"} |-> 0]

baseState(username, scopedKey) ==
    [username |-> username,
     gold |-> 25,
     level |-> 1,
     xp |-> 0,
     xpNeeded |-> 100,
     poleLevel |-> 1,
     lureLevel |-> 0,
     luck |-> 0,
     inventory |-> <<>>,
     inventoryCap |-> inventoryCapBase,
     isCasting |-> FALSE,
     hasTug |-> FALSE,
     biomeKey |-> startBiomeKey,
     craftingUnlocked |-> FALSE,
     tradingUnlocked |-> FALSE,
     enchantmentsUnlocked |-> FALSE,
     prestigeCount |-> 0,
     materials |-> materialDefaults,
     essences |-> essenceDefaults,
     activeBuffs |-> [xp |-> undefined, value |-> undefined],
     upgradeCharges |-> EmptyMap,
     activeBait |-> undefined,
     activeCharm |-> undefined,
     stabilizerCharges |-> 0,
     echoReelCharges |-> 0,
     poleSkinId |-> "classic",
     ownedPoleSkins |-> <<"classic">>,
     scopedKey |-> scopedKey]

(* The persisted part of a record (transient flags and charges are dropped). *)
ensurePublic(state) ==
    [username |-> state.username,
     gold |-> state.gold,
     level |-> state.level,
     xp |-> state.xp,
     xpNeeded |-> state.xpNeeded,
     poleLevel |-> state.poleLevel,
     lureLevel |-> state.lureLevel,
     luck |-> state.luck,
     inventory |-> state.inventory,
     poleSkinId |-> state.poleSkinId,
     ownedPoleSkins |-> state.ownedPoleSkins,
     inventoryCap |-> state.inventoryCap,
     biome |-> state.biomeKey,
     activeBuffs |-> state.activeBuffs,
     upgradeCharges |-> state.upgradeCharges,
     craftingUnlocked |-> state.craftingUnlocked,
     tradingUnlocked |-> state.tradingUnlocked,
     enchantmentsUnlocked |-> state.enchantmentsUnlocked,
     prestigeCount |-> state.prestigeCount,
     materials |-> state.materials,
     essences |-> state.essences]

(* loadPlayer's hydration of a parsed save file *)
hydrate(username, scopedKey, parsed) ==
    [baseState(username, scopedKey) EXCEPT
        !.gold = parsed.gold,
        !.level = parsed.level,
        !.xp = parsed.xp,
        !.xpNeeded = parsed.xpNeeded,
        !.poleLevel = parsed.poleLevel,
        !.lureLevel = parsed.lureLevel,
        !.luck = parsed.luck,
        !.inventory = parsed.inventory,
        !.inventoryCap = MathMin(inventoryCapMax, MathMax(inventoryCapBase, parsed.inventoryCap)),
        !.poleSkinId = parsed.poleSkinId,
        !.ownedPoleSkins = IF \E i \in 1..Len(parsed.ownedPoleSkins) :
                                   parsed.ownedPoleSkins[i] = "classic"
                           THEN parsed.ownedPoleSkins
                           ELSE <<"classic">> \o parsed.ownedPoleSkins,
        !.biomeKey = parsed.biome,
        !.activeBuffs = parsed.activeBuffs,
        !.upgradeCharges = parsed.upgradeCharges,
        !.craftingUnlocked = parsed.craftingUnlocked,
        !.tradingUnlocked = parsed.tradingUnlocked,
        !.enchantmentsUnlocked = parsed.enchantmentsUnlocked,
        !.prestigeCount = parsed.prestigeCount,
        !.materials = parsed.materials,
        !.essences = parsed.essences]

----------------------------------------------------------------------------
(* The mutable globals of the module, threaded through one synchronous run *)

Cur ==
    [heap |-> heap, players |-> players, timers |-> timers,
     tugTimers |-> tugTimers, decayTimers |-> decayTimers,
     interactionLock |-> interactionLock, lastCommandAt |-> lastCommandAt,
     lastGlobalCommandAt |-> lastGlobalCommandAt,
     userCommandCooldownMs |-> userCommandCooldownMs,
     globalCommandCooldownMs |-> globalCommandCooldownMs,
     activeEvents |-> activeEvents, eventTimers |-> eventTimers,
     castSeq |-> castSeq, sessionOpenedAt |-> sessionOpenedAt,
     themeSent |-> themeSent, catalogOverrides |-> catalogOverrides,
     lastStoreRefresh |-> lastStoreRefresh, storeRotationVersion |-> storeRotationVersion,
     storeRotation |-> storeRotation, charmTimers |-> charmTimers,
     xpBuffTimers |-> xpBuffTimers, valueBuffTimers |-> valueBuffTimers, uuid |-> uuid,
     tradeBoard |-> tradeBoard, tradeLoadedChan |-> tradeLoadedChan,
     out |-> <<>>, called |-> <<>>]

emit(s, event) == [s EXCEPT !.out = Append(@, event)]

(* History: the handler `fn` is entered in this step *)
call(s, fn) == [s EXCEPT !.called = Append(@, fn)]

(* enableActivityLogs is on unless ENABLE_ACTIVITY_LOGS=false *)
pushLog(s, line) == emit(s, [type |-> "log", line |-> line])

status(s, text) == emit(s, [type |-> "status", text |-> text])

(* The(S) is the element of the singleton S.  The({ e : s \in {arg} }) is e *)
(* with s bound to the value of arg, which is evaluated once, as a call     *)
(* evaluates its argument.                                                  *)
The(S) == CHOOSE r \in S : TRUE

(* Handles in use: pending timers and the handles still stored in maps *)
HandlesInUse(s) ==
    { t.id : t \in s.timers }
    \cup { s.tugTimers[k] : k \in DOMAIN s.tugTimers }
    \cup { s.decayTimers[k] : k \in DOMAIN s.decayTimers }
    \cup { s.eventTimers[k] : k \in DOMAIN s.eventTimers }
    \cup { s.charmTimers[k] : k \in DOMAIN s.charmTimers }
    \cup (IF s.interactionLock # null /\ "timer" \in DOMAIN s.interactionLock
          THEN { s.interactionLock.timer } ELSE {})

FreshHandle(s0) ==
    The({ ( CHOOSE h \in 1..(Cardinality(HandlesInUse(s)) + 1) : h \notin HandlesInUse(s) )
          : s \in {s0} })

(* setTimeout(callback, delayMs): the callback is named by kind and closure *)
setTimeout(s, h, kind, closure, delayMs) ==
    [s EXCEPT !.timers = @ \cup { [id |-> h, kind |-> kind, closure |-> closure, due |-> now + delayMs] }]

clearTimeout(s, h) == [s EXCEPT !.timers = { t \in @ : t.id # h }]

clearTug(s0, scopedKey) ==
    The({ (
        IF MapHas(s.tugTimers, scopedKey)
        THEN [clearTimeout(s, s.tugTimers[scopedKey]) EXCEPT !.tugTimers = MapDelete(@, scopedKey)]
        ELSE s )
          : s \in {s0} })

clearDecay(s0, scopedKey) ==
    The({ (
        IF MapHas(s.decayTimers, scopedKey)
        THEN [clearTimeout(s, s.decayTimers[scopedKey]) EXCEPT !.decayTimers = MapDelete(@, scopedKey)]
        ELSE s )
          : s \in {s0} })

(* if (state.activeBait) { uses -= 1; if (uses <= 0) activeBait = undefined } *)
consumeBait(state) ==
    IF state.activeBait = undefined THEN state
    ELSE IF state.activeBait.uses - 1 <= 0
         THEN [state EXCEPT !.activeBait = undefined]
         ELSE [state EXCEPT !.activeBait.uses = @ - 1]

getBiome(state) ==
    IF \E i \in 1..Len(baseBiomes) : baseBiomes[i].key = state.biomeKey
    THEN baseBiomes[CHOOSE i \in 1..Len(baseBiomes) : baseBiomes[i].key = state.biomeKey]
    ELSE baseBiomes[1]

(* biome.rarityConfigs.find(c => rarityOrder.indexOf(c.rarity) is idx), or dflt *)
configAt(biome, idx, dflt) ==
    IF \E i \in 1..Len(biome.rarityConfigs) : rarityIndexOf(biome.rarityConfigs[i].rarity) = idx
    THEN biome.rarityConfigs[CHOOSE i \in 1..Len(biome.rarityConfigs) :
                                 rarityIndexOf(biome.rarityConfigs[i].rarity) = idx]
    ELSE dflt

----------------------------------------------------------------------------
(* Global events *)

(* [...activeEvents].sort((a, b) => a.endsAt - b.endsAt): the sort is stable *)
RECURSIVE sortByEndsAt(_)
sortByEndsAt(events) ==
    IF events = <<>> THEN <<>>
    ELSE LET first == CHOOSE i \in 1..Len(events) :
                          /\ \A j \in 1..Len(events) : events[i].endsAt <= events[j].endsAt
                          /\ \A j \in 1..(i - 1) : events[j].endsAt > events[i].endsAt
         IN <<events[first]>>
            \o sortByEndsAt(SubSeq(events, 1, first - 1)
                            \o SubSeq(events, first + 1, Len(events)))

broadcastEvents(s0) ==
    The({ The({ (
        emit(s, [type |-> "events",
                 events |-> [i \in 1..Len(events) |->
                                [id |-> events[i].id, kind |-> events[i].kind,
                                 amount |-> events[i].amount, endsAt |-> events[i].endsAt]]]) )
              : events \in { sortByEndsAt(s.activeEvents) } })
          : s \in {s0} })

(* The loop of clearGlobalEvent over idsToClear *)
RECURSIVE endEvents(_, _, _, _)
endEvents(s0, io, idsToClear, reason) ==
    IF idsToClear = <<>> THEN s0
    ELSE The({ (
        LET key == Head(idsToClear)
            s1 == IF MapHas(s.eventTimers, key)
                  THEN [clearTimeout(s, s.eventTimers[key])
                            EXCEPT !.eventTimers = MapDelete(@, key)]
                  ELSE s
            found == { i \in 1..Len(s1.activeEvents) : s1.activeEvents[i].id = key }
            idx == IF found = {} THEN 0 ELSE CHOOSE i \in found : \A j \in found : i <= j
            spliced == [s1 EXCEPT !.activeEvents =
                            SubSeq(@, 1, idx - 1) \o SubSeq(@, idx + 1, Len(@))]
            s2 == IF idx > 0
                  THEN IF io /\ reason # "" THEN status(spliced, "Event ended") ELSE spliced
                  ELSE s1
        IN endEvents(s2, io, Tail(idsToClear), reason) )
          : s \in {s0} })

(* An id that is absent or empty stands for every active event *)
clearGlobalEvent(s0, io, id, reason) ==
    The({ (
        IF io THEN broadcastEvents(s) ELSE s )
          : s \in { endEvents(s0, io,
                              IF id = "" THEN [i \in 1..Len(s0.activeEvents) |->
                                                  s0.activeEvents[i].id]
                              ELSE <<id>>,
                              reason) } })

RECURSIVE clearExpired(_, _, _)
clearExpired(s, io, expired) ==
    IF expired = <<>> THEN s
    ELSE clearExpired(clearGlobalEvent(s, io, Head(expired).id, "expired"), io, Tail(expired))

(* Events that have reached their endsAt are left to their callbacks *)
currentEventsKeepsExpired(s, io) == s

currentEvents(s, io) ==
    clearExpired(s, io, SelectSeq(s.activeEvents, LAMBDA e : now >= e.endsAt))

RECURSIVE SumAmounts(_, _)
SumAmounts(events, kind) ==
    IF events = <<>> THEN 0
    ELSE (IF Head(events).kind = kind THEN MathMax(0, Head(events).amount) ELSE 0)
         + SumAmounts(Tail(events), kind)

RECURSIVE SumDoubleStacks(_)
SumDoubleStacks(events) ==
    IF events = <<>> THEN 0
    ELSE (IF Head(events).kind = "double"
          THEN MathMax(0, MathRound(IF Head(events).amount = 0 THEN 100 ELSE Head(events).amount, 100))
          ELSE 0)
         + SumDoubleStacks(Tail(events))

(* Amounts are in hundredths.   Luck only shifts the odds of rollRarity, *)
(* which the model leaves to the draw.                                   *)
getEventEffects(s0, io) ==
    The({ (
        LET s1 == currentEvents(s, io)
        IN [s |-> s1,
            xpBonus |-> SumAmounts(s1.activeEvents, "xp"),
            goldBonus |-> SumAmounts(s1.activeEvents, "gold"),
            doubleStacks |-> SumDoubleStacks(s1.activeEvents)] )
          : s \in {s0} })

----------------------------------------------------------------------------
(* Timed buffs and charms.  Amounts and bonuses are in hundredths. *)

emitBuffs(s, o) ==
    emit(s, [type |-> "buffs", user |-> s.heap[o].username,
             buffs |-> [xp |-> s.heap[o].activeBuffs.xp,
                        value |-> s.heap[o].activeBuffs.value,
                        charm |-> s.heap[o].activeCharm]])

clearCharm(s0, io, o) ==
    The({ (
        LET scopedKey == s.heap[o].scopedKey
            s1 == IF MapHas(s.charmTimers, scopedKey)
                  THEN [clearTimeout(s, s.charmTimers[scopedKey])
                            EXCEPT !.charmTimers = MapDelete(@, scopedKey)]
                  ELSE s
            s2 == [s1 EXCEPT !.heap[o].activeCharm = undefined]
        IN IF io THEN emitBuffs(s2, o) ELSE s2 )
          : s \in {s0} })

RECURSIVE SumOfAmounts(_)
SumOfAmounts(entries) ==
    IF entries = <<>> THEN 0 ELSE Head(entries).amount + SumOfAmounts(Tail(entries))

RECURSIVE MaxEndsAt(_)
MaxEndsAt(entries) ==
    IF Len(entries) = 1 THEN Head(entries).endsAt
    ELSE MathMax(Head(entries).endsAt, MaxEndsAt(Tail(entries)))

MapGetList(m, k) == IF MapHas(m, k) THEN m[k] ELSE <<>>

(* `map` names the Map the caller passes: xpBuffTimers or valueBuffTimers *)
recomputeBuff(s0, o, kind, map, io) ==
    The({ (
        LET scopedKey == s.heap[o].scopedKey
            entries == SelectSeq(MapGetList(s[map], scopedKey), LAMBDA e : e.endsAt > now)
            total == SumOfAmounts(entries)
            s1 == [s EXCEPT ![map] = MapSet(@, scopedKey, entries)]
            s2 == IF total > 0
                  THEN [s1 EXCEPT !.heap[o].activeBuffs[kind] =
                                      [amount |-> total, expiresAt |-> MaxEndsAt(entries)]]
                  ELSE [s1 EXCEPT !.heap[o].activeBuffs[kind] = undefined]
        IN IF io THEN emitBuffs(s2, o) ELSE s2 )
          : s \in {s0} })

(* The callback addTimedBuff arms: the grant of this timer leaves the list *)
buffCallback(s0, closure) ==
    The({ (
        LET scopedKey == s.heap[closure.state].scopedKey
            list == SelectSeq(MapGetList(s[closure.map], scopedKey),
                              LAMBDA e : e.timer # closure.timer)
            s1 == [s EXCEPT ![closure.map] = MapSet(@, scopedKey, list)]
            s2 == recomputeBuff(s1, closure.state, closure.kind, closure.map, TRUE)
        IN IF closure.label # "" THEN status(s2, closure.label) ELSE s2 )
          : s \in {s0} })

addTimedBuff(s0, o, kind, amount, durationMs, map, expireText) ==
    The({ (
        LET scopedKey == s.heap[o].scopedKey
            timer == FreshHandle(s)
            s1 == setTimeout(s, timer, "buff",
                             [state |-> o, kind |-> kind, map |-> map, timer |-> timer,
                              label |-> expireText], durationMs)
            s2 == [s1 EXCEPT ![map] =
                       MapSet(@, scopedKey,
                              Append(MapGetList(@, scopedKey),
                                     [amount |-> amount, timer |-> timer,
                                      endsAt |-> now + durationMs, label |-> expireText]))]
        IN recomputeBuff(s2, o, kind, map, TRUE) )
          : s \in {s0} })

(* The callback a charm arms *)
charmCallback(s, closure) ==
    status(clearCharm(s, TRUE, closure.state), closure.label)

----------------------------------------------------------------------------
(* Catch resolution *)

baitField(state, f) ==
    IF state.activeBait # undefined /\ f \in DOMAIN state.activeBait
    THEN state.activeBait[f] ELSE 0

(* Every weight is positive, so every rarity can be rolled: `drawn` is the *)
(* bucket the roll lands in.                                                *)
rollRarity(state, biome, drawn) ==
    LET picked == configAt(biome, rarityIndexOf(drawn), biome.rarityConfigs[1])
    IN IF state.activeBait # undefined /\ "minRarityIndex" \in DOMAIN state.activeBait
          /\ rarityIndexOf(picked.rarity) < state.activeBait.minRarityIndex
       THEN configAt(biome, state.activeBait.minRarityIndex, picked)
       ELSE picked

(* valueMultiplier in hundredths; the id is the next randomUUID() *)
makeItem(id, rarity, valueMultiplier, biome, drawn) ==
    [id |-> id,
     name |-> biome.lootTable[rarity.rarity],
     rarity |-> rarity.rarity,
     value |-> MathRound((IF drawn = "min" THEN rarity.valueRange[1] ELSE rarity.valueRange[2])
                          * valueMultiplier, 100)]

(* A level-up that is not repeated *)
levelUpOnce(state, levelUps) ==
    IF state.xp >= state.xpNeeded
    THEN [state |-> [state EXCEPT !.xp = @ - state.xpNeeded,
                                  !.level = @ + 1,
                                  !.xpNeeded = 100 + (state.level + 1) * 30],
          levelUps |-> levelUps + 1]
    ELSE [state |-> state, levelUps |-> levelUps]

(* while (state.xp >= state.xpNeeded) { ... levelUps.push(state.level) } *)
RECURSIVE levelUp(_, _)
levelUp(state, levelUps) ==
    IF state.xp >= state.xpNeeded
    THEN levelUp([state EXCEPT !.xp = @ - state.xpNeeded,
                               !.level = @ + 1,
                               !.xpNeeded = 100 + (state.level + 1) * 30],
                 levelUps + 1)
    ELSE [state |-> state, levelUps |-> levelUps]

(* eventEffects bonuses, biome multipliers and boosts are in hundredths *)
applyCatchRewards(state, item, rarity, biome, eventEffects) ==
    LET valueBuff == IF state.activeBuffs.value = undefined THEN 0
                     ELSE state.activeBuffs.value.amount
        valueMultiplier == 100 + (state.poleLevel - 1) * 10 + baitField(state, "valueBonus")
                           + valueBuff
        xpBuff == IF state.activeBuffs.xp = undefined THEN 0 ELSE state.activeBuffs.xp.amount
        xpBoost == 100 + state.poleLevel * 5 + state.lureLevel * 5 + state.luck * 10
                   + (IF state.activeCharm = undefined THEN 0 ELSE state.activeCharm.xpBonus)
                   + baitField(state, "xpBonus") + xpBuff
        goldMultiplier == 100 + eventEffects.goldBonus
        xpMultiplier == 100 + eventEffects.xpBonus
        goldEarned == MathRound((baseGoldPerCatch * 100 + item.value * valueMultiplier)
                                * biome.goldMultiplier * goldMultiplier, 100 * 100 * 100)
        xpGained == MathRound(rarity.xp * xpBoost * biome.xpMultiplier * xpMultiplier,
                              100 * 100 * 100)
        stored == Len(state.inventory) < state.inventoryCap
        paid == [state EXCEPT !.gold = @ + goldEarned,
                              !.xp = @ + xpGained,
                              !.inventory = IF stored THEN Append(@, item) ELSE @]
        levelled == levelUp(paid, 0)
    IN [state |-> levelled.state, goldEarned |-> goldEarned, xpGained |-> xpGained,
        levelUps |-> levelled.levelUps, stored |-> stored]

(* Only biomes of tier 5 and above give dust; the modelled biomes are below. *)
maybeAwardCosmicDust(state, biome) ==
    [state |-> state, amount |-> 0]

valueMultiplierOf(state) == 100 + (state.level - 1) * 3

(* The bonus catches of a double event: bonusCatchCount more items *)
RECURSIVE bonusCatches(_, _, _, _, _, _, _)
bonusCatches(s, o, n, rarity, biome, eventEffects, drawn) ==
    IF n = 0 THEN s
    ELSE LET state == s.heap[o]
             bonusItem == makeItem(s.uuid, rarity, valueMultiplierOf(state), biome, drawn.value)
             r == applyCatchRewards(state, bonusItem, rarity, biome, eventEffects)
             s1 == [s EXCEPT !.heap[o] = r.state, !.uuid = @ + 1]
             s2 == status(s1, "double catch bonus")
             s3 == emit(s2, [type |-> "inventory", state |-> ensurePublic(r.state)])
             s4 == IF r.levelUps > 0
                   THEN emit(s3, [type |-> "level", level |-> r.state.level,
                                  xp |-> r.state.xp, xpNeeded |-> r.state.xpNeeded])
                   ELSE s3
         IN bonusCatches(pushLog(s4, "double-event bonus"), o, n - 1, rarity, biome,
                         eventEffects, drawn)

----------------------------------------------------------------------------
(* Fishing *)

(* History: the cast the record o is in gets its catch event *)
resolve(s, o) == [s EXCEPT !.castSeq.resolved = Append(@, s.castSeq.of[o].cast)]

(* A scheduleDecay that stacks the new timer onto the pending one *)
scheduleDecayStacking(s0, closure, delayMs) ==
    The({ (
        LET scopedKey == s.heap[closure.state].scopedKey
            decay == FreshHandle(s)
        IN [setTimeout(s, decay, "decay", closure, delayMs)
                EXCEPT !.decayTimers = MapSet(@, scopedKey, decay)] )
          : s \in {s0} })

(* scheduleDecay of the handleCast invocation whose closure is `closure` *)
scheduleDecay(s0, closure, delayMs) ==
    The({ (
        LET scopedKey == s.heap[closure.state].scopedKey
            s1 == clearDecay(s, scopedKey)
            decay == FreshHandle(s1)
        IN [setTimeout(s1, decay, "decay", closure, delayMs)
                EXCEPT !.decayTimers = MapSet(@, scopedKey, decay)] )
          : s \in {s0} })

(* handleCast once the line is known to be free *)
castLine(s0, o, eta) ==
    The({ (
        LET state == s.heap[o]
            bait == IF state.activeBait # undefined /\ state.activeBait.expiresAt < now
                    THEN undefined ELSE state.activeBait
            s1 == [s EXCEPT !.heap[o] = [state EXCEPT !.activeBait = bait,
                                                      !.isCasting = TRUE,
                                                      !.hasTug = FALSE],
                            !.castSeq = [n |-> @.n + 1,
                                         of |-> MapSet(@.of, o, [cast |-> @.n + 1, at |-> now,
                                                                  eta |-> eta]),
                                         resolved |-> @.resolved]]
            s2 == clearDecay(clearTug(s1, state.scopedKey), state.scopedKey)
            s3 == emit(s2, [type |-> "skin", user |-> state.username])
            closure == [state |-> o, cast |-> s1.castSeq.n]
            s4 == scheduleDecay(s3, closure, eta + tugResponseWindowMs + tugFailSafeBufferMs)
            timer == FreshHandle(s4)
            s5 == [setTimeout(s4, timer, "tug", closure, eta)
                       EXCEPT !.tugTimers = MapSet(@, state.scopedKey, timer)]
            s6 == emit(s5, [type |-> "cast", user |-> state.username, etaMs |-> eta])
        IN pushLog(s6, "casts their line") )
          : s \in {s0} })

(* A handleCast without the isCasting guard *)
handleCastUnguarded(s, o, eta) == castLine(s, o, eta)

handleCast(s, o, eta) ==
    IF s.heap[o].isCasting
    THEN status(s, "already has a line in the water")
    ELSE castLine(s, o, eta)

(* The callback of the tug timer *)
tugCallback(s0, closure) ==
    The({ (
        LET o == closure.state
            s1 == [s EXCEPT !.heap[o].hasTug = TRUE]
            s2 == emit(s1, [type |-> "tug", user |-> s.heap[o].username])
        IN scheduleDecay(s2, closure, tugResponseWindowMs) )
          : s \in {s0} })

(* A decay callback that leaves the cast as it is *)
decayCallbackIdle(s0, closure) == s0

(* The callback of the decay timer *)
decayCallback(s0, closure) ==
    The({ (
        LET o == closure.state
            state == s.heap[o]
        IN IF ~state.isCasting THEN s
           ELSE
             LET s1 == [s EXCEPT !.heap[o] = [state EXCEPT !.isCasting = FALSE, !.hasTug = FALSE]]
                 s2 == resolve(emit(s1, [type |-> "catch", user |-> state.username,
                                         success |-> FALSE]), o)
                 s3 == status(s2, "line went slack")
                 s4 == pushLog(s3, "let the line go slack (timed out)")
                 s5 == clearTug(s4, state.scopedKey)
             IN [s5 EXCEPT !.heap[o] = consumeBait(@)] )
          : s \in {s0} })

(* handleReel's branch for a reel before the tug with no stabilizer charge *)
reelTooEarly(s, o) ==
    LET state == s.heap[o]
        s1 == [s EXCEPT !.heap[o].isCasting = FALSE]
        s2 == resolve(emit(s1, [type |-> "catch", user |-> state.username,
                                success |-> FALSE]), o)
        s3 == pushLog(s2, "reeled in too early")
    IN [s3 EXCEPT !.heap[o] = consumeBait(@)]

(* A forgiveness that keeps the charge *)
forgiveKeepsCharge(state) == [state EXCEPT !.hasTug = TRUE]

(* if (stabilizerCharges > 0) { stabilizerCharges -= 1; hasTug = true } *)
forgiveEarlyReel(state) ==
    [state EXCEPT !.stabilizerCharges = @ - 1, !.hasTug = TRUE]

(* handleReel from `state.hasTug = false` to `await savePlayer(state)` *)
landCatch(s0, o, drawn) ==
    The({ (
        LET landed == [s.heap[o] EXCEPT !.hasTug = FALSE, !.isCasting = FALSE]
            biome == getBiome(landed)
            rarity == rollRarity(landed, biome, drawn.rarity)
        IN The({ (
            LET s2 == eventEffects.s
                item == makeItem(s2.uuid, rarity, valueMultiplierOf(landed), biome, drawn.value)
            IN The({ (
                LET dust == maybeAwardCosmicDust(r.state, biome)
                    s3 == resolve([s2 EXCEPT !.heap[o] = dust.state, !.uuid = @ + 1], o)
                    bonusCatchCount == MathMin(maxDoubleStacks, MathMax(0, eventEffects.doubleStacks))
                    s4 == bonusCatches(s3, o, bonusCatchCount, rarity, biome, eventEffects, drawn)
                IN [s |-> s4, suspended |-> TRUE,
                    locals |-> [item |-> item, goldEarned |-> r.goldEarned,
                                xpGained |-> r.xpGained, levelUps |-> r.levelUps,
                                stored |-> r.stored, rarity |-> rarity,
                                cosmicDustGained |-> dust.amount, drawn |-> drawn,
                                eventEffects |-> [xpBonus |-> eventEffects.xpBonus,
                                                  goldBonus |-> eventEffects.goldBonus]]] )
                  : r \in { applyCatchRewards(landed, item, rarity, biome, eventEffects) } }) )
              : eventEffects \in { getEventEffects([s EXCEPT !.heap[o] = landed], TRUE) } }) )
          : s \in {s0} })

(* An early-reel check that forgives without a charge *)
earlyReelForgiving(state) == IF state.hasTug THEN "tug" ELSE "forgiven"

(* What the early-reel check of handleReel decides *)
earlyReel(state) ==
    IF state.hasTug THEN "tug"
    ELSE IF state.stabilizerCharges > 0 THEN "forgiven"
    ELSE "early"

(* handleReel up to `await savePlayer(state)`; `suspended` tells whether it *)
(* got there, and `locals` are the variables the rest of the function uses. *)
handleReel(s0, o, drawn) ==
    The({ (
        LET state == s.heap[o]
            s1 == clearDecay(clearTug(s, state.scopedKey), state.scopedKey)
        IN IF ~state.isCasting
           THEN [s |-> status(s, "needs to !cast first"), suspended |-> FALSE]
           ELSE CASE earlyReel(state) = "early" ->
                        [s |-> reelTooEarly(s1, o), suspended |-> FALSE]
                  [] earlyReel(state) = "forgiven" ->
                        landCatch([s1 EXCEPT !.heap[o] = forgiveEarlyReel(state)], o, drawn)
                  [] OTHER -> landCatch(s1, o, drawn) )
          : s \in {s0} })

(* A handleReel that ends at `await savePlayer(state)` *)
handleReelSavedSilent(s0, o, locals) == s0

(* handleReel after `await savePlayer(state)`.  The scroll drop needs       *)
(* prestigeCount >= 4, which no record of the model has.                    *)
handleReelSaved(s0, o, locals) ==
    The({ (
        LET state == s.heap[o]
            biome == getBiome(state)
            echo == state.echoReelCharges > 0
            downgradedRarity ==
                configAt(biome, MathMax(0, rarityIndexOf(locals.rarity.rarity) - 1), locals.rarity)
            bonusItem == makeItem(s.uuid, downgradedRarity, valueMultiplierOf(state), biome,
                                  locals.drawn.value)
        IN The({ The({ (
            LET after == s2.heap[o]
                s3 == emit(s2, [type |-> "catch", user |-> after.username, success |-> TRUE,
                                item |-> locals.item, goldEarned |-> locals.goldEarned,
                                xpGained |-> locals.xpGained, rarity |-> locals.rarity.rarity])
                s4 == emit(s3, [type |-> "inventory", state |-> ensurePublic(after)])
                s5 == IF locals.cosmicDustGained > 0 THEN status(s4, "distilled Cosmic Dust") ELSE s4
                s6 == IF locals.levelUps > 0
                      THEN emit(s5, [type |-> "level", level |-> after.level,
                                     xp |-> after.xp, xpNeeded |-> after.xpNeeded])
                      ELSE s5
            IN IF ~locals.stored
               THEN pushLog(status(s6, "inventory is full; auto-sold"), "auto-sold")
               ELSE pushLog(s6, "caught") )
              : s2 \in {
                  LET s1 == IF ~echo THEN s
                            ELSE LET e1 == [s EXCEPT !.heap[o] = r.state, !.uuid = @ + 1]
                                     e2 == status(pushLog(e1, "Echo Reel triggered"),
                                                  "Echo Reel landed a bonus")
                                     e3 == emit(e2, [type |-> "inventory",
                                                     state |-> ensurePublic(r.state)])
                                 IN IF r.levelUps > 0
                                    THEN emit(e3, [type |-> "level", level |-> r.state.level,
                                                   xp |-> r.state.xp,
                                                   xpNeeded |-> r.state.xpNeeded])
                                    ELSE e3
                  IN [s1 EXCEPT !.heap[o] = consumeBait(@)] } })
              : r \in { applyCatchRewards([state EXCEPT !.echoReelCharges = @ - 1], bonusItem,
                                          downgradedRarity, biome, locals.eventEffects) } }) )
          : s \in {s0} })

----------------------------------------------------------------------------
(* The interaction lock *)

(* An optional number: <<>> is undefined, <<n>> is n *)
None == <<>>
Some(n) == <<n>>

(* opt ?? dflt *)
OrElse(opt, dflt) == IF opt = None THEN dflt ELSE opt[1]

(* A clearInteractionLock that leaves the lock's timer pending *)
clearInteractionLockKeepsTimer(s0, io, applyCooldown, reason) ==
    The({ ( IF s.interactionLock = null THEN s
            ELSE [s EXCEPT !.interactionLock = null, !.sessionOpenedAt = 0] )
          : s \in {s0} })

clearInteractionLock(s0, io, applyCooldown, reason) ==
    The({ (
        IF s.interactionLock = null THEN s
        ELSE
          LET lock == s.interactionLock
              s1 == IF "timer" \in DOMAIN lock THEN clearTimeout(s, lock.timer) ELSE s
              s2 == IF applyCooldown
                    THEN [s1 EXCEPT !.lastCommandAt = MapSet(@, lock.scopedKey, now)]
                    ELSE s1
              s3 == IF io THEN status(s2, reason) ELSE s2
          IN [s3 EXCEPT !.interactionLock = null, !.sessionOpenedAt = 0] )
          : s \in {s0} })

armInteractionTimeout(s0) ==
    The({ (
        IF s.interactionLock = null THEN s
        ELSE
          LET lock == s.interactionLock
              s1 == IF "timer" \in DOMAIN lock THEN clearTimeout(s, lock.timer) ELSE s
              remaining == lock.expiresAt - now
              timer == FreshHandle([s1 EXCEPT !.interactionLock = null])
          IN IF remaining <= 0
             THEN clearInteractionLock(s1, TRUE, TRUE, "closed after inactivity")
             ELSE [setTimeout(s1, timer, "lock", null, remaining)
                       EXCEPT !.interactionLock =
                           [f \in (DOMAIN lock) \cup {"timer"} |->
                               IF f = "timer" THEN timer ELSE lock[f]]] )
          : s \in {s0} })

(* A callback of the lock's timer that applies no cooldown *)
lockCallbackNoCooldown(s) ==
    IF s.interactionLock = null THEN s
    ELSE clearInteractionLock(s, TRUE, FALSE, "closed after inactivity")

(* The callback of the lock's timer *)
lockCallback(s) ==
    IF s.interactionLock = null THEN s
    ELSE clearInteractionLock(s, TRUE, TRUE, "closed after inactivity")

beginInteraction(s, o, mode, announce) ==
    LET state == s.heap[o]
    IN IF s.interactionLock # null /\ s.interactionLock.scopedKey = state.scopedKey
       THEN LET s1 == armInteractionTimeout([s EXCEPT !.interactionLock.mode = mode])
            IN IF announce THEN status(s1, "open - timer running") ELSE s1
       ELSE LET s1 == armInteractionTimeout(
                         [s EXCEPT !.interactionLock =
                             [scopedKey |-> state.scopedKey, username |-> state.username,
                              mode |-> mode, expiresAt |-> now + interactionTimeoutMs,
                              refreshesUsed |-> 0],
                                   !.sessionOpenedAt = now])
            IN IF announce THEN status(s1, "open - 25s to interact") ELSE s1

(* A refreshInteractionLock that grants every renewal *)
refreshInteractionLockUncapped(s, o) ==
    IF s.interactionLock = null \/ s.interactionLock.scopedKey # s.heap[o].scopedKey THEN s
    ELSE armInteractionTimeout([s EXCEPT !.interactionLock.refreshesUsed = @ + 1,
                                         !.interactionLock.expiresAt = now + interactionTimeoutMs])

refreshInteractionLock(s, o) ==
    IF s.interactionLock = null \/ s.interactionLock.scopedKey # s.heap[o].scopedKey THEN s
    ELSE IF s.interactionLock.refreshesUsed >= maxInteractionRefreshes THEN s
    ELSE armInteractionTimeout([s EXCEPT !.interactionLock.refreshesUsed = @ + 1,
                                         !.interactionLock.expiresAt = now + interactionTimeoutMs])

(* Of a store event the model keeps the type, the user and the lock notice. *)
emitStoreLocked(s, reason, remainingMs, refreshesLeft, user) ==
    emit(s, [type |-> "store", user |-> user,
             locked |-> [reason |-> reason, remainingMs |-> remainingMs,
                         refreshesLeft |-> refreshesLeft]])

emitInventoryLocked(s, o, reason) ==
    LET state == s.heap[o]
        holder == s.interactionLock # null /\ s.interactionLock.scopedKey = state.scopedKey
        refreshesLeft == IF holder
                         THEN Some(MathMax(0, maxInteractionRefreshes - s.interactionLock.refreshesUsed))
                         ELSE None
        remainingMs == IF holder THEN Some(MathMax(0, s.interactionLock.expiresAt - now)) ELSE None
    IN emit(s, [type |-> "inventory", state |-> ensurePublic(state),
                locked |-> [reason |-> reason, remainingMs |-> remainingMs,
                            refreshesLeft |-> refreshesLeft]])

----------------------------------------------------------------------------
(* The store.  Price multipliers are in thousandths, the premium bonus in *)
(* hundredths.                                                            *)

defaultStoreConfig ==
    [rotationHours |-> 4, alwaysKeys |-> <<"bag-upgrade", "bait-basic">>, slots |-> 6]

storeRefreshCooldownMs == 8 * 60 * 60 * 1000
premiumStoreSlots == 1
premiumRarityFloor == "epic"
premiumPriceBonus == 35
storeTierPriceStep == 150
storeLevelPriceStart == 20
storeLevelPriceStep == 4
storeLevelPriceCap == 600
storePrestigePriceStep == 80
storePriceMaxMultiplier == 3250

(* A store item; minLevel 0 stands for none, the description is left out *)
StoreItem(key, name, cost, rarity, value, type) ==
    [key |-> key, name |-> name, cost |-> cost, rarity |-> rarity, value |-> value,
     type |-> type, minLevel |-> 0, premium |-> FALSE]

storeItems ==
    << StoreItem("bait-basic", "Bag of Bait", 20, "common", 12, "bait"),
       StoreItem("bait-shiny", "Shiny Lure", 90, "rare", 38, "bait"),
       StoreItem("bait-mystic", "Mystic Bobber", 160, "epic", 65, "bait"),
       StoreItem("bait-aurora", "Aurora Float", 280, "mythic", 120, "bait"),
       StoreItem("bag-upgrade", "Inventory Expansion", 120, "rare", 0, "item"),
       StoreItem("hook-stabilizer", "Hook Stabilizer", 35, "common", 0, "token"),
       StoreItem("tide-token", "Tide Token", 70, "uncommon", 0, "token"),
       StoreItem("gleam-polish", "Gleam Polish", 110, "rare", 0, "token"),
       StoreItem("scholars-note", "Scholar's Note", 80, "uncommon", 0, "token"),
       StoreItem("echo-reel", "Echo Reel", 140, "rare", 0, "token"),
       StoreItem("luck-charm", "Luck Charm", 110, "rare", 0, "token"),
       StoreItem("traders-mark", "Trader's Mark", 85, "uncommon", 0, "token"),
       StoreItem("waypoint-charter", "Waypoint Charter", 170, "rare", 0, "token"),
       StoreItem("survey-beacon", "Survey Beacon", 230, "epic", 0, "token"),
       StoreItem("chest-key", "Chest Key", 120, "rare", 0, "token"),
       StoreItem("prospectors-lens", "Prospector's Lens", 210, "epic", 0, "token"),
       StoreItem("crafting-booster", "Crafting Booster Kit", 280, "epic", 0, "token"),
       StoreItem("enchanters-spark", "Enchanter's Spark", 340, "legendary", 0, "token"),
       StoreItem("scroll-common", "Scroll of Looting (Common)", 1200, "common", 0, "scroll"),
       StoreItem("scroll-rare", "Scroll of Looting (Rare)", 2400, "rare", 0, "scroll"),
       StoreItem("scroll-epic", "Scroll of Looting (Epic/Mythic)", 4800, "epic", 0, "scroll"),
       StoreItem("scroll-legendary", "Scroll of Looting (Legendary)", 8200, "legendary", 0,
                 "scroll") >>

basePoleSkins ==
    << [id |-> "classic", name |-> "Classic Oak", levelReq |-> 1, cost |-> 0, rarity |-> "common"],
       [id |-> "carbon", name |-> "Carbon Pro", levelReq |-> 5, cost |-> 120, rarity |-> "rare"],
       [id |-> "neon", name |-> "Neon Flux", levelReq |-> 8, cost |-> 180, rarity |-> "epic"],
       [id |-> "aurora", name |-> "Aurora Drift", levelReq |-> 12, cost |-> 260,
        rarity |-> "legendary"] >>

(* `skin-${id}` and `${name} Skin` of the built-in skins *)
skinKey(id) ==
    CASE id = "carbon" -> "skin-carbon" [] id = "neon" -> "skin-neon"
      [] id = "aurora" -> "skin-aurora" [] OTHER -> "skin-classic"

skinItemName(id) ==
    CASE id = "carbon" -> "Carbon Pro Skin" [] id = "neon" -> "Neon Flux Skin"
      [] id = "aurora" -> "Aurora Drift Skin" [] OTHER -> "Classic Oak Skin"

(* The catalog of the model carries no skins of its own *)
skinStoreItems ==
    [i \in 1..(Len(basePoleSkins) - 1) |->
        [StoreItem(skinKey(basePoleSkins[i + 1].id), skinItemName(basePoleSkins[i + 1].id),
                   basePoleSkins[i + 1].cost, basePoleSkins[i + 1].rarity, 0, "skin")
            EXCEPT !.minLevel = basePoleSkins[i + 1].levelReq]]

allStoreItems == storeItems \o skinStoreItems

baseCatalogVersion == "1.0.0"

(* Of the catalog the model keeps what the store reads.  The module is *)
(* loaded at StartTime.                                                *)
buildBaseCatalog ==
    [version |-> baseCatalogVersion, updatedAt |-> StartTime, items |-> allStoreItems,
     storeConfig |-> [rotationHours |-> Some(defaultStoreConfig.rotationHours),
                      alwaysKeys |-> defaultStoreConfig.alwaysKeys,
                      slots |-> Some(defaultStoreConfig.slots)]]

(* The fields of an overrides file are optional *)
getCatalogSnapshot(s) ==
    IF s.catalogOverrides = null THEN buildBaseCatalog
    ELSE [version |-> OrElse(s.catalogOverrides.version, buildBaseCatalog.version),
          updatedAt |-> OrElse(s.catalogOverrides.updatedAt, buildBaseCatalog.updatedAt),
          items |-> OrElse(s.catalogOverrides.items, buildBaseCatalog.items),
          storeConfig |-> OrElse(s.catalogOverrides.storeConfig, buildBaseCatalog.storeConfig)]

(* Hours are whole in the model: Math.max(1 / 6, hours) is ten minutes at 0 *)
getStoreConfig(catalog) ==
    LET cfg == catalog.storeConfig
        rotationMs == IF cfg.rotationHours # None
                      THEN MathMax(10 * 60 * 1000, cfg.rotationHours[1] * 60 * 60 * 1000)
                      ELSE defaultStoreConfig.rotationHours * 60 * 60 * 1000
    IN [rotationMs |-> rotationMs,
        alwaysKeys |-> IF cfg.alwaysKeys # <<>> THEN cfg.alwaysKeys
                       ELSE defaultStoreConfig.alwaysKeys,
        slots |-> IF cfg.slots # None THEN MathMax(1, cfg.slots[1])
                  ELSE defaultStoreConfig.slots]

(* The fingerprint: the parts of the template string, in its order *)
storeVersionKey(catalog, cfg) ==
    <<catalog.version, catalog.updatedAt, cfg.rotationMs, cfg.slots, cfg.alwaysKeys,
      premiumStoreSlots, premiumRarityFloor>>

(* The first item of each key *)
RECURSIVE dedupByKey(_, _)
dedupByKey(items, seen) ==
    IF items = <<>> THEN <<>>
    ELSE IF Head(items).key \in seen THEN dedupByKey(Tail(items), seen)
    ELSE <<Head(items)>> \o dedupByKey(Tail(items), seen \cup {Head(items).key})

runtimeStorePool(catalog) ==
    dedupByKey((IF catalog.items # <<>> THEN catalog.items ELSE storeItems)
               \o (IF catalog.items # <<>> THEN <<>> ELSE skinStoreItems), {})

InKeys(key, keys) == \E i \in 1..Len(keys) : keys[i] = key

(* Math.floor(Math.random() * length): the draw is taken as the index it yields *)
drawIndex(picks, length) == IF picks = <<>> THEN 0 ELSE Head(picks) % length

RECURSIVE fillSlots(_, _, _, _)
fillSlots(selection, pool, targetCount, picks) ==
    IF Len(selection) < targetCount /\ pool # <<>>
    THEN LET idx == drawIndex(picks, Len(pool)) + 1
         IN fillSlots(Append(selection, pool[idx]),
                      SubSeq(pool, 1, idx - 1) \o SubSeq(pool, idx + 1, Len(pool)),
                      targetCount, IF picks = <<>> THEN picks ELSE Tail(picks))
    ELSE [selection |-> selection, picks |-> picks]

(* premiumStoreSlots is 1: the loop over the premium slots runs once *)
pickStoreItems(catalog, cfg, picks) ==
    The({ (
        LET always == SelectSeq(base, LAMBDA i : InKeys(i.key, cfg.alwaysKeys))
            pool == SelectSeq(base, LAMBDA i : ~InKeys(i.key, cfg.alwaysKeys))
            targetCount == MathMin(cfg.slots, Len(base))
        IN The({ (
            LET chosenKeys == { filled.selection[i].key : i \in 1..Len(filled.selection) }
                premiumFloorIdx == MathMax(0, rarityIndexOf(premiumRarityFloor))
                premiumPool == SelectSeq(base, LAMBDA i :
                                   /\ rarityIndexOf(i.rarity) >= premiumFloorIdx
                                   /\ i.key \notin chosenKeys)
            IN IF premiumPool = <<>> THEN filled.selection
               ELSE Append(filled.selection,
                           [premiumPool[drawIndex(filled.picks, Len(premiumPool)) + 1]
                               EXCEPT !.premium = TRUE]) )
              : filled \in { fillSlots(always, pool, targetCount, picks) } }) )
          : base \in { runtimeStorePool(catalog) } })

storePriceMultiplier(state) ==
    LET tierBonus == MathMax(0, getBiome(state).tier - 1) * storeTierPriceStep
        levelBonus == MathMin(storeLevelPriceCap,
                              MathMax(0, state.level - storeLevelPriceStart) * storeLevelPriceStep)
        prestigeBonus == state.prestigeCount * storePrestigePriceStep
    IN MathMin(storePriceMaxMultiplier, 1000 + tierBonus + levelBonus + prestigeBonus)

priceStoreItem(item, state) ==
    MathMax(1, MathRound(item.cost * storePriceMultiplier(state)
                             * (IF item.premium THEN 100 + premiumPriceBonus ELSE 100),
                         100000))

(* A cache that is kept until it expires, whatever the fingerprint *)
currentStoreItemsAnyVersion(s0, picks) ==
    The({ (
        LET catalog == getCatalogSnapshot(s)
            cfg == getStoreConfig(catalog)
        IN IF s.storeRotation # null /\ now < s.storeRotation.expiresAt
           THEN [s |-> s, items |-> s.storeRotation.items]
           ELSE The({ (
                [s |-> [s EXCEPT !.storeRotation = [items |-> selection,
                                                    expiresAt |-> now + cfg.rotationMs],
                                 !.storeRotationVersion = storeVersionKey(catalog, cfg)],
                 items |-> selection] )
                  : selection \in { pickStoreItems(catalog, cfg, picks) } }) )
          : s \in {s0} })

(* The selection on offer and the state it leaves *)
currentStoreItems(s0, picks) ==
    The({ (
        LET catalog == getCatalogSnapshot(s)
            cfg == getStoreConfig(catalog)
            versionKey == storeVersionKey(catalog, cfg)
        IN IF /\ s.storeRotation # null
              /\ s.storeRotationVersion = versionKey
              /\ now < s.storeRotation.expiresAt
           THEN [s |-> s, items |-> s.storeRotation.items]
           ELSE The({ (
                [s |-> [s EXCEPT !.storeRotation = [items |-> selection,
                                                    expiresAt |-> now + cfg.rotationMs],
                                 !.storeRotationVersion = versionKey],
                 items |-> selection] )
                  : selection \in { pickStoreItems(catalog, cfg, picks) } }) )
          : s \in {s0} })

(* storeRotation ?? { items: currentStoreItems(), ... } of handleStore and *)
(* handleUpgrades                                                         *)
rotationOrCurrent(s, picks) ==
    IF s.storeRotation # null THEN s ELSE currentStoreItems(s, picks).s


(* The session line of handleStore, handleUpgrades and handleInventory *)
sessionStatus(s, what) ==
    LET refreshesLeft == IF s.interactionLock # null
                         THEN MathMax(0, maxInteractionRefreshes - s.interactionLock.refreshesUsed)
                         ELSE maxInteractionRefreshes
        remainingMs == IF s.interactionLock # null
                       THEN MathMax(0, s.interactionLock.expiresAt - now)
                       ELSE interactionTimeoutMs
    IN emit(s, [type |-> "status", text |-> what, remainingMs |-> remainingMs,
                refreshesLeft |-> refreshesLeft])

handleStore(s, o, picks) ==
    LET state == s.heap[o]
        announce == s.interactionLock = null \/ s.interactionLock.scopedKey # state.scopedKey
                    \/ s.interactionLock.mode # "store"
        s1 == sessionStatus(beginInteraction(s, o, "store", announce), "store session active")
    IN The({ emit(s2, [type |-> "store", user |-> state.username,
                       expiresAt |-> s2.storeRotation.expiresAt])
               : s2 \in { rotationOrCurrent(s1, picks) } })

handleUpgrades(s, o, picks) ==
    LET state == s.heap[o]
        announce == s.interactionLock = null \/ s.interactionLock.scopedKey # state.scopedKey
                    \/ s.interactionLock.mode # "store"
        s1 == sessionStatus(beginInteraction(s, o, "store", announce), "upgrades session active")
    IN The({ emit(s2, [type |-> "store", user |-> state.username,
                       expiresAt |-> s2.storeRotation.expiresAt])
               : s2 \in { rotationOrCurrent(s1, picks) } })

(* A refresh that does not look at the player's last refresh *)
handleStoreRefreshNoCooldown(s0, o, picks) ==
    The({ (
        LET state == s.heap[o]
            catalog == getCatalogSnapshot(s)
            cfg == getStoreConfig(catalog)
            expiresAt == IF s.storeRotation # null /\ s.storeRotation.expiresAt > now
                         THEN s.storeRotation.expiresAt
                         ELSE now + cfg.rotationMs
            s1 == [s EXCEPT !.lastStoreRefresh = MapSet(@, state.scopedKey, now),
                            !.storeRotation = [items |-> pickStoreItems(catalog, cfg, picks),
                                               expiresAt |-> expiresAt],
                            !.storeRotationVersion = storeVersionKey(catalog, cfg)]
        IN pushLog(status(emit(s1, [type |-> "store", user |-> state.username]),
                          "refreshed the store"),
                   "manually refreshed the store") )
          : s \in {s0} })

handleStoreRefresh(s0, o, picks) ==
    The({ (
        LET state == s.heap[o]
            catalog == getCatalogSnapshot(s)
            cfg == getStoreConfig(catalog)
            last == IF MapHas(s.lastStoreRefresh, state.scopedKey)
                    THEN s.lastStoreRefresh[state.scopedKey] ELSE 0
            expiresAt == IF s.storeRotation # null /\ s.storeRotation.expiresAt > now
                         THEN s.storeRotation.expiresAt
                         ELSE now + cfg.rotationMs
            s1 == [s EXCEPT !.lastStoreRefresh = MapSet(@, state.scopedKey, now),
                            !.storeRotation = [items |-> pickStoreItems(catalog, cfg, picks),
                                               expiresAt |-> expiresAt],
                            !.storeRotationVersion = storeVersionKey(catalog, cfg)]
        IN IF now - last < storeRefreshCooldownMs
           THEN pushLog(status(s, "store refresh on cooldown"),
                        "attempted store refresh but is on cooldown")
           ELSE pushLog(status(emit(s1, [type |-> "store", user |-> state.username]),
                               "refreshed the store"),
                        "manually refreshed the store") )
          : s \in {s0} })

handleInventory(s, o) ==
    LET state == s.heap[o]
        announce == s.interactionLock = null \/ s.interactionLock.scopedKey # state.scopedKey
                    \/ s.interactionLock.mode # "inventory"
        s1 == sessionStatus(beginInteraction(s, o, "inventory", announce), "inventory session active")
    IN emit(s1, [type |-> "inventory", state |-> ensurePublic(state)])

----------------------------------------------------------------------------
(* Other handlers *)

handleFish(s, o) == pushLog(status(s, "Commands"), "checked the fishing guide")

handleLevel(s, o) ==
    LET state == s.heap[o]
    IN pushLog(emit(s, [type |-> "level", level |-> state.level, xp |-> state.xp,
                        xpNeeded |-> state.xpNeeded]), "is level")

(* inventory.findIndex(i => i.name.toLowerCase() is query): 0 when absent *)
findIndexByName(inventory, query) ==
    LET found == { i \in 1..Len(inventory) : toLowerCase(inventory[i].name) = query }
    IN IF found = {} THEN 0 ELSE CHOOSE i \in found : \A j \in found : i <= j

splice(seq, idx) == SubSeq(seq, 1, idx - 1) \o SubSeq(seq, idx + 1, Len(seq))

(* handleUse for the items the model's inventories can hold: plain catches *)
(* and the Hook Stabilizer token.  `args` holds the query as one string.   *)
(* byTier.find(b => b.tier === tier), undefined when there is none *)
byTierFind(tier) ==
    IF \E i \in 1..Len(baseBiomes) : baseBiomes[i].tier = tier
    THEN baseBiomes[CHOOSE i \in 1..Len(baseBiomes) : baseBiomes[i].tier = tier]
    ELSE undefined

nextBiome(current) == byTierFind(current.tier + 1)

prevBiome(current) == byTierFind(current.tier - 1)

grantXp(state, amount) == levelUp([state EXCEPT !.xp = @ + amount], 0)

(* state.biomeKey = biome.key and the cast in progress is dropped *)
sailTo(s0, o, biome) ==
    The({ (
        LET moved == [s.heap[o] EXCEPT !.biomeKey = biome.key, !.isCasting = FALSE,
                                       !.hasTug = FALSE]
            s1 == [s EXCEPT !.heap[o] = moved]
        IN clearDecay(clearTug(s1, moved.scopedKey), moved.scopedKey) )
          : s \in {s0} })

(* A charm that replaces the one in force without clearing it first *)
activateCharmKeepsOld(s0, o, durationMs, rarityBonus, xpBonus, fadedText) ==
    The({ (
        LET timer == FreshHandle(s)
            s2 == [s EXCEPT !.heap[o].activeCharm =
                       [expiresAt |-> now + durationMs, rarityBonus |-> rarityBonus,
                        xpBonus |-> xpBonus]]
            s3 == setTimeout(s2, timer, "charm", [state |-> o, label |-> fadedText],
                             durationMs)
            s4 == [s3 EXCEPT !.charmTimers = MapSet(@, s.heap[o].scopedKey, timer)]
        IN emitBuffs(s4, o) )
          : s \in {s0} })

(* clearCharm; state.activeCharm = {...}; setTimeout; charmTimers.set; emitBuffs *)
activateCharm(s0, o, durationMs, rarityBonus, xpBonus, fadedText) ==
    The({ (
        LET timer == FreshHandle(s)
            s2 == [s EXCEPT !.heap[o].activeCharm =
                       [expiresAt |-> now + durationMs, rarityBonus |-> rarityBonus,
                        xpBonus |-> xpBonus]]
            s3 == setTimeout(s2, timer, "charm", [state |-> o, label |-> fadedText],
                             durationMs)
            s4 == [s3 EXCEPT !.charmTimers = MapSet(@, s.heap[o].scopedKey, timer)]
        IN emitBuffs(s4, o) )
          : s \in { clearCharm(s0, TRUE, o) } })

inventoryEvent(s, o) == emit(s, [type |-> "inventory", state |-> ensurePublic(s.heap[o])])

(* The token branch: the item has left the inventory before its name is read *)
useToken(s0, o, item) ==
    The({ (
        LET state == s.heap[o]
            name == toLowerCase(item.name)
        IN CASE name = "hook stabilizer" ->
                    inventoryEvent(pushLog(status(
                        [s EXCEPT !.heap[o].stabilizerCharges = @ + 1],
                        "readied a Hook Stabilizer"), "primed a Hook Stabilizer"), o)
             [] name = "echo reel" ->
                    pushLog(inventoryEvent(status(
                        [s EXCEPT !.heap[o].echoReelCharges = @ + 1],
                        "prepped an Echo Reel"), o), "primed an Echo Reel")
             [] name = "luck charm" ->
                    pushLog(inventoryEvent(status(
                        activateCharm(s, o, 3 * 60 * 1000, 8, 5, "luck charm faded"),
                        "used a Luck Charm"), o), "activated a Luck Charm")
             [] name = "trader's mark" ->
                    pushLog(inventoryEvent(status(
                        addTimedBuff(s, o, "value", 15, 5 * 60 * 1000, "valueBuffTimers",
                                     "Trader's Mark faded"),
                        "used Trader's Mark"), o), "activated Trader's Mark")
             [] name = "waypoint charter" ->
                    IF prevBiome(getBiome(state)) = undefined
                    THEN inventoryEvent(status(s, "already at the starting waters"), o)
                    ELSE inventoryEvent(pushLog(status(
                             sailTo(s, o, prevBiome(getBiome(state))),
                             "sailed using a Waypoint Charter"), "sailed down"), o)
             [] OTHER ->
                    pushLog(inventoryEvent(status(
                        activateCharm(s, o, 120000, 10, 10, "luck boost faded"),
                        "luck/rarity boost for 2m"), o), "2m luck boost") )
          : s \in {s0} })

(* The compass branch *)
useCompass(s0, o) ==
    The({ (
        IF nextBiome(getBiome(s.heap[o])) = undefined
        THEN pushLog(inventoryEvent(status(s, "the compass fades"), o),
                     "used an Enchanted Compass at the max biome (no effect)")
        ELSE pushLog(inventoryEvent(status(
                 sailTo(s, o, nextBiome(getBiome(s.heap[o]))),
                 "New waters unlocked"), o), "charted a course") )
          : s \in {s0} })

levelEvent(s, o) ==
    emit(s, [type |-> "level", level |-> s.heap[o].level, xp |-> s.heap[o].xp,
             xpNeeded |-> s.heap[o].xpNeeded])

(* The upgrade branch: legacy upgrade items are worth 20 xp *)
useUpgradeItem(s0, o) ==
    The({ (
        LET s1 == inventoryEvent(status([s EXCEPT !.heap[o] = granted.state],
                                        "gained 20xp"), o)
        IN pushLog(IF granted.levelUps > 0 THEN levelEvent(s1, o) ELSE s1, "(+20xp)") )
          : granted \in { grantXp(s0.heap[o], 20) }, s \in {s0} })

(* The map branch: a find of rarity rare or better, gold and xp on top *)
useMap(s0, o, drawn) ==
    The({ (
        LET state == s.heap[o]
            biome == getBiome(state)
            rolled == rollRarity(state, biome, drawn.rarity)
            minIdx == rarityIndexOf("rare")
            targetRarity ==
                IF rarityIndexOf(rolled.rarity) >= minIdx THEN rolled
                ELSE IF \E i \in 1..Len(biome.rarityConfigs) :
                            rarityIndexOf(biome.rarityConfigs[i].rarity) >= minIdx
                     THEN biome.rarityConfigs[
                              CHOOSE i \in 1..Len(biome.rarityConfigs) :
                                  /\ rarityIndexOf(biome.rarityConfigs[i].rarity) >= minIdx
                                  /\ \A j \in 1..(i - 1) :
                                         rarityIndexOf(biome.rarityConfigs[j].rarity) < minIdx]
                     ELSE rolled
            cacheItem == makeItem(s.uuid, targetRarity, 100 + (state.level - 1) * 5, biome,
                                  drawn.value)
            stashBonusGold == MathRound((40 + state.level * 3) * biome.goldMultiplier, 100)
            stashBonusXp == MathRound(35 * biome.xpMultiplier, 100)
            granted == grantXp([state EXCEPT !.gold = @ + stashBonusGold], stashBonusXp)
            stored == Len(state.inventory) < state.inventoryCap
            kept == IF stored
                    THEN [granted.state EXCEPT !.inventory = Append(@, cacheItem)]
                    ELSE [granted.state EXCEPT !.gold = @ + cacheItem.value]
            s1 == inventoryEvent(status([s EXCEPT !.heap[o] = kept, !.uuid = @ + 1],
                                        "followed the Treasure Map"), o)
        IN pushLog(IF granted.levelUps > 0 THEN levelEvent(s1, o) ELSE s1,
                   "used a Treasure Map") )
          : s \in { getEventEffects(s0, TRUE).s } })

(* Items of type bait, chest and scroll are in no inventory of the model *)
handleUse(s, o, args, drawn) ==
    The({ (
        LET state == s1.heap[o]
            query == toLowerCase(args[1])
            idx == findIndexByName(state.inventory, query)
            item == state.inventory[idx]
            itemType == IF "type" \in DOMAIN item THEN item.type ELSE "null"
            taken == [s1 EXCEPT !.heap[o].inventory = splice(@, idx)]
        IN IF Len(args) = 0 THEN status(s1, "Usage: !use <item>")
           ELSE IF Len(state.inventory) = 0 THEN status(s1, "has nothing to use")
           ELSE IF idx = 0 THEN status(s1, "Item not found")
           ELSE CASE itemType = "compass" -> useCompass(taken, o)
                  [] itemType = "map" -> useMap(taken, o, drawn)
                  [] itemType = "upgrade" -> useUpgradeItem(taken, o)
                  [] itemType = "token" -> useToken(taken, o, item)
                  [] OTHER -> status(s1, "Can't use") )
          : s1 \in { refreshInteractionLock(s, o) } })

baseUpgrades == <<
    [key |-> "rod", name |-> "Reinforced Rod", cost |-> 60, maxLevel |-> 1, stat |-> "value"],
    [key |-> "lure", name |-> "Lucky Lure", cost |-> 80, maxLevel |-> 5, stat |-> "rarity"],
    [key |-> "journal", name |-> "Fishing Journal", cost |-> 50, maxLevel |-> 1, stat |-> "xp"] >>

prestigeCost(tier) ==
    CASE tier = 1 -> 75000 [] tier = 2 -> 100000 [] tier = 3 -> 150000 [] OTHER -> 220000

getUpgrades(state) ==
    IF state.level >= 60 /\ state.prestigeCount < 4
    THEN Append(baseUpgrades,
                [key |-> "prestige", name |-> "Prestige Token",
                 cost |-> prestigeCost(state.prestigeCount + 1), maxLevel |-> 1,
                 stat |-> "prestige"])
    ELSE baseUpgrades

(* /^\d+$/.test(raw) on the arguments the model sends *)
IsDigits(raw) == raw \in {"0", "2", "5", "10", "600"}

upgradeWindowMs == 12 * 60 * 60 * 1000
maxPerWindow == 3

(* The journal and rod branch; `entry` is the object held in upgradeCharges *)
(* when there is one, so resetting its window is a write to the state       *)
buyTimedUpgrade(s0, o, upgrade) ==
    The({ (
        LET state == s.heap[o]
            held == MapHas(state.upgradeCharges, upgrade.key)
            found == IF held THEN state.upgradeCharges[upgrade.key]
                     ELSE [count |-> 0, resetAt |-> now + upgradeWindowMs]
            entry == IF found.resetAt < now
                     THEN [count |-> 0, resetAt |-> now + upgradeWindowMs]
                     ELSE found
            s1 == IF held THEN [s EXCEPT !.heap[o].upgradeCharges = MapSet(@, upgrade.key, entry)]
                  ELSE s
            counted == [count |-> entry.count + 1,
                        resetAt |-> MathMax(entry.resetAt, now + upgradeWindowMs)]
            s2 == [s1 EXCEPT !.heap[o].gold = @ - upgrade.cost,
                             !.heap[o].upgradeCharges = MapSet(@, upgrade.key, counted)]
        IN IF entry.count >= maxPerWindow THEN status(s1, "limit reached")
           ELSE IF state.gold < upgrade.cost THEN status(s1, "Not enough gold")
           ELSE IF upgrade.key = "journal"
                THEN inventoryEvent(pushLog(status(
                         addTimedBuff(s2, o, "xp", 15, 5 * 60 * 1000, "xpBuffTimers",
                                      "journal study ended"),
                         "studied a Journal"), "started a journal XP boost"), o)
                ELSE inventoryEvent(pushLog(status(
                         addTimedBuff(s2, o, "value", 20, 3 * 60 * 1000, "valueBuffTimers",
                                      "rod reinforcement faded"),
                         "reinforced their rod"), "started a rod value boost"), o) )
          : s \in {s0} })

buyPrestige(s0, o, upgrade) ==
    The({ (
        LET state == s.heap[o]
            prestiged == [state EXCEPT !.gold = @ - upgrade.cost, !.level = 1, !.xp = 0,
                                       !.xpNeeded = 100, !.prestigeCount = @ + 1,
                                       !.craftingUnlocked = TRUE,
                                       !.tradingUnlocked = @ \/ state.prestigeCount + 1 >= 2,
                                       !.enchantmentsUnlocked =
                                           @ \/ state.prestigeCount + 1 >= 3]
        IN IF state.prestigeCount >= 3 THEN status(s, "Maximum prestige reached")
           ELSE IF state.level < 60 THEN status(s, "Prestige requires level 60")
           ELSE IF state.gold < upgrade.cost THEN status(s, "Not enough gold")
           ELSE inventoryEvent(levelEvent(pushLog(status(
                    [s EXCEPT !.heap[o] = prestiged], "prestiged"), "prestiged"), o), o) )
          : s \in {s0} })

(* The other upgrades: one more level of the stat they name *)
buyUpgradeLevel(s0, o, upgrade) ==
    The({ (
        LET state == s.heap[o]
            currentLevel == CASE upgrade.stat = "rarity" -> state.lureLevel
                              [] upgrade.stat = "value" -> state.poleLevel
                              [] OTHER -> state.luck
            bought == [state EXCEPT
                          !.gold = @ - upgrade.cost,
                          !.lureLevel = IF upgrade.stat = "rarity" THEN @ + 1 ELSE @,
                          !.poleLevel = IF upgrade.stat = "value" THEN @ + 1 ELSE @,
                          !.luck = IF upgrade.stat = "xp" THEN @ + 1 ELSE @]
        IN IF currentLevel >= upgrade.maxLevel THEN status(s, "is already maxed")
           ELSE IF state.gold < upgrade.cost THEN status(s, "Not enough gold")
           ELSE pushLog(inventoryEvent(status([s EXCEPT !.heap[o] = bought], "bought"), o),
                        "upgraded") )
          : s \in {s0} })

buyUpgrade(s, o, upgrade, quantity) ==
    IF quantity > 1 THEN status(s, "Upgrades are bought one at a time")
    ELSE CASE upgrade.key \in {"journal", "rod"} -> buyTimedUpgrade(s, o, upgrade)
           [] upgrade.key = "prestige" -> buyPrestige(s, o, upgrade)
           [] OTHER -> buyUpgradeLevel(s, o, upgrade)

(* text.replace('skin-', '') of a text that starts with 'skin-'; the id of *)
(* no skin leads where no text does                                       *)
skinIdOfKey(text) ==
    CASE text = "skin-classic" -> Some("classic")
      [] text = "skin-carbon" -> Some("carbon")
      [] text = "skin-neon" -> Some("neon")
      [] text = "skin-aurora" -> Some("aurora")
      [] OTHER -> None

(* The skin branch of handleBuy; `item` is null when the rotation lacks it *)
buySkin(s, o, skin, item, quantity) ==
    LET state == s.heap[o]
        owned == \E i \in 1..Len(state.ownedPoleSkins) : state.ownedPoleSkins[i] = skin.id
        skinCost == priceStoreItem(IF item # null THEN item
                                   ELSE [StoreItem(skinKey(skin.id), skinItemName(skin.id),
                                                   skin.cost, skin.rarity, 0, "skin")
                                            EXCEPT !.minLevel = skin.levelReq],
                                   state)
        after == [state EXCEPT !.gold = @ - skinCost,
                               !.poleSkinId = skin.id,
                               !.ownedPoleSkins = Append(@, skin.id)]
    IN IF quantity > 1 THEN status(s, "Skins can only be bought once")
       ELSE IF owned THEN status(s, "is already owned")
       ELSE IF state.level < skin.levelReq THEN status(s, "Level required")
       ELSE IF state.gold < skinCost THEN status(s, "Not enough gold")
       ELSE pushLog(inventoryEvent(emit([s EXCEPT !.heap[o] = after],
                                        [type |-> "skin", user |-> state.username,
                                         skinId |-> skin.id]), o),
                    "unlocked skin")

(* The items pushed by a purchase: one randomUUID() each *)
boughtItems(item, quantity, uuid0) ==
    [i \in 1..quantity |->
        [id |-> uuid0 + i - 1, name |-> item.name, rarity |-> item.rarity,
         value |-> item.value, type |-> item.type]]

buyBagUpgrade(s, o, item, quantity) ==
    LET state == s.heap[o]
        remaining == MathMax(0, (inventoryCapMax - state.inventoryCap) \div inventoryCapStep)
        totalCost == priceStoreItem(item, state) * quantity
        after == [state EXCEPT !.gold = @ - totalCost,
                               !.inventoryCap = MathMin(inventoryCapMax,
                                                        @ + inventoryCapStep * quantity)]
    IN IF remaining <= 0 THEN status(s, "Inventory space is already at the max")
       ELSE IF quantity > remaining THEN status(s, "inventory expansions left")
       ELSE IF state.gold < totalCost THEN status(s, "Not enough gold")
       ELSE pushLog(inventoryEvent(status([s EXCEPT !.heap[o] = after], "expanded inventory"), o),
                    "bought")

(* handleBuy from `const catalog = getCatalogSnapshot()` on *)
buyStoreItem(s0, o, query, quantity, picks) ==
    The({ (
        LET s == cur.s
            state == s.heap[o]
            found == { i \in 1..Len(cur.items) :
                          \/ cur.items[i].key = query
                          \/ toLowerCase(cur.items[i].name) = query }
            item == IF found = {} THEN null
                    ELSE cur.items[CHOOSE i \in found : \A j \in found : i <= j]
            skinId == IF skinIdOfKey(query) # None THEN skinIdOfKey(query)
                      ELSE IF item # null THEN skinIdOfKey(item.key)
                      ELSE None
            totalCost == priceStoreItem(item, state) * quantity
            space == state.inventoryCap - Len(state.inventory)
            after == [state EXCEPT !.gold = @ - totalCost,
                                   !.inventory = @ \o boughtItems(item, quantity, s.uuid)]
        IN IF skinId # None
           THEN buySkin(s, o, basePoleSkins[CHOOSE i \in 1..Len(basePoleSkins) :
                                                basePoleSkins[i].id = skinId[1]],
                        item, quantity)
           ELSE IF item = null THEN status(s, "Item not available right now")
           ELSE IF item.key = "bag-upgrade" THEN buyBagUpgrade(s, o, item, quantity)
           ELSE IF item.minLevel # 0 /\ state.level < item.minLevel
                THEN status(s, "Level required")
           ELSE IF item.key = "crafting-booster" /\ ~state.craftingUnlocked
                THEN status(s, "Crafting Booster requires crafting to be unlocked first")
           ELSE IF item.key = "enchanters-spark" /\ ~state.enchantmentsUnlocked
                THEN status(s, "Enchanter's Spark requires enchantments to be unlocked first")
           ELSE IF space < quantity THEN status(s, "Not enough inventory space")
           ELSE IF state.gold < totalCost THEN status(s, "Not enough gold")
           ELSE pushLog(inventoryEvent(status([s EXCEPT !.heap[o] = after,
                                                        !.uuid = @ + quantity],
                                              "bought"), o),
                        "bought") )
          : cur \in { currentStoreItems(s0, picks) } })

handleBuy(s, o, args, picks) ==
    IF Len(args) = 0 THEN status(s, "Usage: !buy <item> [quantity]")
    ELSE The({ (
        LET state == s1.heap[o]
            tail == args[Len(args)]
            numbered == IsDigits(tail)
            quantity == IF numbered THEN MathMax(1, Number(tail)) ELSE 1
            argCopy == IF numbered THEN SubSeq(args, 1, Len(args) - 1) ELSE args
            query == toLowerCase(argCopy[1])
            availableUpgrades == getUpgrades(state)
            matches == { i \in 1..Len(availableUpgrades) :
                            \/ availableUpgrades[i].key = query
                            \/ toLowerCase(availableUpgrades[i].name) = query }
        IN IF Len(argCopy) = 0 THEN status(s1, "Usage: !buy <item> [quantity]")
           ELSE IF matches # {}
                THEN buyUpgrade(s1, o, availableUpgrades[CHOOSE i \in matches :
                                                            \A j \in matches : i <= j],
                                quantity)
                ELSE buyStoreItem(s1, o, query, quantity, picks) )
          : s1 \in { refreshInteractionLock(s, o) } })

(* inventory.reduce((sum, item) => sum + (item.value ?? 0), 0) *)
RECURSIVE SumValues(_)
SumValues(inventory) ==
    IF inventory = <<>> THEN 0 ELSE Head(inventory).value + SumValues(Tail(inventory))

handleSell(s0, o, args) ==
    The({ (
        LET state == s.heap[o]
            query == toLowerCase(args[1])
            found == IF Len(args) > 0 THEN findIndexByName(state.inventory, query) ELSE 0
            idx == IF found > 0 THEN found ELSE 1
            sold == state.inventory[idx]
            total == SumValues(state.inventory)
        IN IF Len(state.inventory) = 0 THEN status(s, "has nothing to sell")
           ELSE IF Len(args) > 0 /\ query = "all"
                THEN LET after == [state EXCEPT !.gold = @ + total, !.inventory = <<>>]
                         s1 == emit([s EXCEPT !.heap[o] = after],
                                    [type |-> "sell", gold |-> total,
                                     count |-> Len(state.inventory)])
                         s2 == emit(status(s1, "sold all"),
                                    [type |-> "inventory", state |-> ensurePublic(after)])
                     IN pushLog(s2, "sold all")
           ELSE LET after == [state EXCEPT !.gold = @ + sold.value,
                                           !.inventory = splice(@, idx)]
                    s1 == emit([s EXCEPT !.heap[o] = after],
                               [type |-> "sell", gold |-> sold.value, item |-> sold])
                    s2 == emit(status(s1, "sold"),
                               [type |-> "inventory", state |-> ensurePublic(after)])
                IN pushLog(s2, "sold") )
          : s \in { refreshInteractionLock(s0, o) } })

maxEventDurationMs == 10 * 60 * 1000
defaultEventDurationMs == 5 * 60 * 1000

(* The text of the n-th randomUUID() *)
uuidText(n) ==
    CASE n = 1 -> "u1" [] n = 2 -> "u2" [] n = 3 -> "u3" [] n = 4 -> "u4"
      [] n = 5 -> "u5" [] n = 6 -> "u6" [] n = 7 -> "u7" [] n = 8 -> "u8"
      [] OTHER -> "u9"

startGlobalEvent(s0, kind, durationMs, amount, targetRarity) ==
    The({ (
        LET id == uuidText(s.uuid)
            evt == [id |-> id, kind |-> kind, endsAt |-> now + durationMs,
                    amount |-> amount, targetRarity |-> targetRarity]
            timer == FreshHandle(s)
            s1 == [s EXCEPT !.activeEvents = Append(@, evt), !.uuid = @ + 1]
            s2 == setTimeout(s1, timer, "event", [id |-> id], durationMs)
            s3 == [s2 EXCEPT !.eventTimers = MapSet(@, id, timer)]
        IN broadcastEvents(status(s3, "Event started")) )
          : s \in {s0} })

(* token.startsWith('x') and token.includes('%') on the tokens the model sends *)
StartsWithX(token) == token \in {"x2", "x10"}
IncludesPercent(token) == token \in {"50%"}

(* The loop over args.slice(2): a rarity, then minutes, then an amount *)
RECURSIVE eventArgs(_, _, _)
eventArgs(tokens, kind, acc) ==
    IF tokens = <<>> THEN acc
    ELSE LET token == toLowerCase(Head(tokens))
             numeric == Number(token)
             next ==
                 IF (\E i \in 1..Len(rarityOrder) : rarityOrder[i] = token) /\ acc.targetRarity = None
                 THEN [acc EXCEPT !.targetRarity = Some(token)]
                 ELSE IF kind = "double" /\ StartsWithX(token)
                 THEN [acc EXCEPT !.amountArg = Some(numeric)]
                 ELSE IF IncludesPercent(token)
                 THEN [acc EXCEPT !.amountArg = Some(numeric)]
                 ELSE IF acc.minutesArg = None
                 THEN [acc EXCEPT !.minutesArg = Some(numeric)]
                 ELSE IF acc.amountArg = None
                 THEN [acc EXCEPT !.amountArg = Some(numeric)]
                 ELSE acc
         IN eventArgs(Tail(tokens), kind, next)

(* An amount that takes the requested magnitude of a double event as it is *)
eventAmountAsRequested(kind, amountArg) ==
    CASE kind = "double" -> 100 * MathMax(1, OrElse(amountArg, 1))
      [] kind = "luck" -> MathMax(1, MathMin(150, OrElse(amountArg, 10)))
      [] OTHER -> MathMax(10, MathMin(500, OrElse(amountArg, 50)))

(* The amount of the event, in hundredths, from the amount asked for *)
eventAmount(kind, amountArg) ==
    CASE kind = "double" -> 100 * MathMax(1, MathMin(maxDoubleStacks, OrElse(amountArg, 1)))
      [] kind = "luck" -> MathMax(1, MathMin(150, OrElse(amountArg, 10)))
      [] OTHER -> MathMax(10, MathMin(500, OrElse(amountArg, 50)))

handleEventCommand(s, o, args, isMod, isBroadcaster) ==
    IF ~(isMod \/ isBroadcaster) THEN status(s, "event control is mod-only")
    ELSE IF Len(args) = 0 \/ args[1] = "help" THEN status(s, "Usage: !event start")
    ELSE IF args[1] \in {"stop", "end"}
         THEN status(clearGlobalEvent(s, TRUE, IF Len(args) >= 2 THEN args[2] ELSE "",
                                      "stopped"),
                     "Event stopped")
    ELSE IF args[1] # "start" THEN status(s, "Usage: !event start")
    ELSE IF Len(args) < 2 \/ args[2] \notin {"xp", "gold", "double", "luck"}
         THEN status(s, "Invalid event type")
    ELSE The({ (
        LET kind == args[2]
            minutes == OrElse(parsed.minutesArg, defaultEventDurationMs \div 60000)
            durationMs == MathMin(maxEventDurationMs, MathMax(60 * 1000, minutes * 60 * 1000))
            amount == eventAmount(kind, parsed.amountArg)
        IN startGlobalEvent(s, kind, durationMs, amount, parsed.targetRarity) )
          : parsed \in { eventArgs(SubSeq(args, 3, Len(args)), args[2],
                                   [minutesArg |-> None, amountArg |-> None,
                                    targetRarity |-> None]) } })


handleCooldownCommand(s, o, args, isMod, isBroadcaster) ==
    IF ~(isMod \/ isBroadcaster) THEN status(s, "cooldown control is mod-only")
    ELSE IF Len(args) = 0 THEN status(s, "Per-user cooldown is")
    ELSE IF args[1] = "reset"
         THEN status([s EXCEPT !.userCommandCooldownMs = DEFAULT_USER_COOLDOWN_MS],
                     "reset cooldown")
    ELSE status([s EXCEPT !.userCommandCooldownMs = MathMax(5, MathMin(300, Number(args[1]))) * 1000],
                "set the per-user cooldown")

handleGlobalCooldownCommand(s, o, args, isMod, isBroadcaster) ==
    IF ~(isMod \/ isBroadcaster) THEN status(s, "global cooldown control is mod-only")
    ELSE IF Len(args) = 0 THEN status(s, "Global chat cooldown is")
    ELSE IF args[1] = "reset"
         THEN status([s EXCEPT !.globalCommandCooldownMs = DEFAULT_GLOBAL_COOLDOWN_MS,
                               !.lastGlobalCommandAt = EmptyMap],
                     "reset the global chat cooldown")
    ELSE status([s EXCEPT !.globalCommandCooldownMs = MathMax(5, MathMin(45, Number(args[1]))) * 1000,
                          !.lastGlobalCommandAt = EmptyMap],
                "set the global chat cooldown")

----------------------------------------------------------------------------
(* The dispatcher *)

knownCommands ==
    {"fish", "cast", "reel", "store", "store-refresh", "buy", "upgrades", "sell", "use",
     "inventory", "save", "equip", "enchant", "duplicate", "level", "theme", "event",
     "cooldown", "gcooldown", "reset-profile", "panel", "trade"}

(* data/commands.json is absent: no alias, nothing disabled *)
disabledCommands == {}

resolveCommandName(raw) == toLowerCase(raw)

isCommandEnabled(command) == toLowerCase(command) \notin disabledCommands

panelOnly == {"store", "store-refresh", "buy", "sell", "use", "inventory", "upgrades",
              "equip", "trade"}

Done(s) == [s |-> s, frame |-> null]
Await(s, frame) == [s |-> s, frame |-> frame]

(* loadPlayer when the record is not cached: file I/O, then a new object *)
FreshObject(s) == CHOOSE o \in 1..(Cardinality(DOMAIN s.heap) + 1) : o \notin DOMAIN s.heap

loadPlayer(s, username, scopedKey) ==
    LET o == FreshObject(s)
        created == IF MapHas(saved, scopedKey)
                   THEN hydrate(username, scopedKey, saved[scopedKey])
                   ELSE baseState(username, scopedKey)
    IN [s |-> [s EXCEPT !.heap = MapSet(@, o, created),
                        !.players = MapSet(@, scopedKey, o)],
        state |-> o]

(* const fresh = baseState(safeUser, scopedKey); players.set(scopedKey, fresh) *)
resetRecord(s, fresh, scopedKey, record) ==
    [s EXCEPT !.heap = MapSet(@, fresh, record), !.players = MapSet(@, scopedKey, fresh)]

(* handleResetProfile up to `await savePlayer(fresh)`.  The channel is the *)
(* one of the caller's scoped key; the timed-buff lists of the target are  *)
(* dropped from their maps, the timers of their entries are left pending.  *)
handleResetProfile(s0, o, args, isMod, isBroadcaster, ctx) ==
    The({ (
        IF ~(isMod \/ isBroadcaster) THEN Done(status(s, "reset is mod-only"))
        ELSE
          LET state == s.heap[o]
              targetUser == IF Len(args) > 0 THEN args[1] ELSE state.username
              target == ids(targetUser, state.scopedKey[1])
              scopedKey == target.scopedKey
              s1 == clearDecay(clearTug(s, scopedKey), scopedKey)
              s2 == IF MapHas(s1.charmTimers, scopedKey)
                    THEN [clearTimeout(s1, s1.charmTimers[scopedKey])
                              EXCEPT !.charmTimers = MapDelete(@, scopedKey)]
                    ELSE s1
              s3 == [s2 EXCEPT !.xpBuffTimers = MapDelete(@, scopedKey),
                               !.valueBuffTimers = MapDelete(@, scopedKey)]
              s4 == IF s3.interactionLock # null /\ s3.interactionLock.scopedKey = scopedKey
                    THEN clearInteractionLock(s3, FALSE, FALSE, "")
                    ELSE s3
              fresh == FreshObject(s4)
          IN Await(resetRecord(s4, fresh, scopedKey, baseState(target.safeUser, scopedKey)),
                   [pc |-> "savePlayer.mkdir", caller |-> "handleResetProfile",
                    state |-> fresh, ctx |-> ctx]) )
          : s \in {s0} })

(* processChatCommand from `const state = await loadPlayer(...)` on *)
dispatch(s0, ctx, o, rnd) ==
    The({ (
        LET payload == ctx.payload
            command == ctx.command
            fromPanel == payload.fromPanel
            isSessionCommand == command \in {"store", "upgrades", "inventory", "buy", "sell", "use"}
            s1 == IF ctx.inOwnSession /\ ~isSessionCommand
                  THEN clearInteractionLock(s, FALSE, FALSE, "")
                  ELSE s
        IN IF ~fromPanel /\ command \in panelOnly
           THEN Done(pushLog(status(s, "this action is panel-only"), "blocked: panel-only command"))
           ELSE CASE command = "fish" -> Done(handleFish(call(s1, "handleFish"), o))
                  [] command = "cast" -> Done(handleCast(call(s1, "handleCast"), o, rnd.eta))
                  [] command = "reel" ->
                        The({ (
                            IF reeled.suspended
                            THEN Await(reeled.s, [pc |-> "savePlayer.mkdir", caller |-> "handleReel",
                                                  state |-> o, locals |-> reeled.locals, ctx |-> ctx])
                            ELSE Done([reeled.s EXCEPT
                                           !.lastCommandAt = MapSet(@, ctx.scopedKey, now)]) )
                              : reeled \in { handleReel(call(s1, "handleReel"), o, rnd.drawn) } })
                  [] command = "store" -> Done(handleStore(call(s1, "handleStore"), o, rnd.picks))
                  [] command = "store-refresh" ->
                        Done(handleStoreRefresh(call(s1, "handleStoreRefresh"), o, rnd.picks))
                  [] command = "upgrades" ->
                        Done(handleUpgrades(call(s1, "handleUpgrades"), o, rnd.picks))
                  [] command = "buy" ->
                        Done(handleBuy(call(s1, "handleBuy"), o, payload.args, rnd.picks))
                  [] command = "sell" -> Done(handleSell(call(s1, "handleSell"), o, payload.args))
                  [] command = "use" ->
                        Done(handleUse(call(s1, "handleUse"), o, payload.args, rnd.drawn))
                  [] command = "inventory" -> Done(handleInventory(call(s1, "handleInventory"), o))
                  [] command = "save" ->
                        Await(call(s1, "handleSave"), [pc |-> "savePlayer.mkdir", caller |-> "handleSave",
                                   state |-> o, ctx |-> ctx])
                  [] command = "level" -> Done(handleLevel(call(s1, "handleLevel"), o))
                  [] command = "event" ->
                        Done(handleEventCommand(call(s1, "handleEventCommand"), o, payload.args,
                                                payload.isMod, payload.isBroadcaster))
                  [] command = "cooldown" ->
                        Done(handleCooldownCommand(call(s1, "handleCooldownCommand"), o, payload.args, payload.isMod,
                                                   payload.isBroadcaster))
                  [] command = "gcooldown" ->
                        Done(handleGlobalCooldownCommand(call(s1, "handleGlobalCooldownCommand"), o, payload.args, payload.isMod,
                                                         payload.isBroadcaster))
                  [] command = "reset-profile" ->
                        handleResetProfile(call(s1, "handleResetProfile"), o, payload.args,
                                           payload.isMod, payload.isBroadcaster, ctx)
                  [] OTHER -> Done(s1) )
          : s \in {s0} })

(* A lock-conflict check that looks at the sender's channel only *)
lockConflictPerChannel(lock, scopedKey) ==
    lock # null /\ lock.scopedKey # scopedKey /\ lock.scopedKey[1] = scopedKey[1]

(* A lock-conflict check that lets everyone through *)
lockNeverConflicts(lock, scopedKey) == FALSE

(* if (interactionLock && interactionLock.scopedKey !== scopedKey) *)
lockConflict(lock, scopedKey) == lock # null /\ lock.scopedKey # scopedKey

(* processChatCommand up to its first await on file I/O, or to its end *)
processChatCommand(s, payload, rnd) ==
    LET command == resolveCommandName(toLowerCase(payload.command))
        isPrivilegedCommand == command \in {"event", "cooldown", "gcooldown", "reset-profile"}
        bypassCooldown == isPrivilegedCommand
        chan == toLowerCase(payload.channel)
        s1 == IF ~s.themeSent
              THEN [emit(s, [type |-> "theme"]) EXCEPT !.themeSent = TRUE]
              ELSE s
        scopedKey == ids(payload.username, chan).scopedKey
        isChatOrigin == ~payload.fromPanel
        lastGlobal == IF MapHas(s.lastGlobalCommandAt, chan) THEN s.lastGlobalCommandAt[chan] ELSE 0
        globalRemainingMs == s.globalCommandCooldownMs - (now - lastGlobal)
        last == IF MapHas(s.lastCommandAt, scopedKey) THEN s.lastCommandAt[scopedKey] ELSE 0
        remainingMs == IF bypassCooldown THEN 0 ELSE s.userCommandCooldownMs - (now - last)
        lock == s.interactionLock
        inOwnSession == lock # null /\ lock.scopedKey = scopedKey
        ctx == [payload |-> payload, command |-> command, chan |-> chan,
                scopedKey |-> scopedKey, inOwnSession |-> inOwnSession]
        cached == MapHas(s.players, scopedKey)
        s2 == IF isChatOrigin /\ s.globalCommandCooldownMs > 0
              THEN [s1 EXCEPT !.lastGlobalCommandAt = MapSet(@, chan, now)]
              ELSE s1
    IN IF command \notin knownCommands THEN Done(s)
       ELSE IF ~isCommandEnabled(command) THEN Done(status(s, "command is currently disabled"))
       ELSE IF isChatOrigin /\ s.globalCommandCooldownMs > 0 /\ ~payload.isMod
               /\ ~payload.isBroadcaster /\ globalRemainingMs > 0
            THEN Done(pushLog(status(s1, "Global cooldown active"), "blocked by global cooldown"))
       ELSE IF lockConflict(lock, scopedKey)
            THEN LET reason == "is using; please wait"
                     s3 == status(s1, reason)
                     s4 == IF command \in {"store", "upgrades"}
                           THEN emitStoreLocked(s3, reason,
                                                IF remainingMs > 0 THEN Some(remainingMs) ELSE None,
                                                Some(maxInteractionRefreshes), payload.username)
                           ELSE s3
                 IN IF command = "inventory"
                    THEN IF cached
                         THEN Done(pushLog(emitInventoryLocked(s4, s.players[scopedKey], reason),
                                           "blocked"))
                         ELSE Await(s4, [pc |-> "loadPlayer", at |-> "locked", reason |-> reason,
                                         ctx |-> ctx])
                    ELSE Done(pushLog(s4, "blocked"))
       ELSE IF remainingMs > 0
            THEN LET reason == "cooldown active"
                     s3 == status(s1, reason)
                     s4 == IF command \in {"store", "upgrades"}
                           THEN emitStoreLocked(s3, reason, Some(remainingMs),
                                                Some(maxInteractionRefreshes
                                                     - (IF lock # null THEN lock.refreshesUsed ELSE 0)),
                                                payload.username)
                           ELSE s3
                 IN IF command = "inventory"
                    THEN IF cached
                         THEN Done(pushLog(emitInventoryLocked(s4, s.players[scopedKey], reason),
                                           "blocked: cooldown"))
                         ELSE Await(s4, [pc |-> "loadPlayer", at |-> "cooldown", reason |-> reason,
                                         ctx |-> ctx])
                    ELSE Done(pushLog(s4, "blocked: cooldown"))
       ELSE IF cached THEN dispatch(s2, ctx, s.players[scopedKey], rnd)
       ELSE Await(s2, [pc |-> "loadPlayer", at |-> "dispatch", ctx |-> ctx])

----------------------------------------------------------------------------
(* The trade board.  A request is [op, username, channel, listingId]. *)

tradeTtlMs == 12 * 60 * 60 * 1000

tradeStorePathForChannel(channel) == <<"__trades__", toLowerCase(channel)>>

tradeBoardLimit == 256
tradeKeepMs == 6 * 60 * 60 * 1000

(* pruneTradeBoard: mark what has expired; past the limit keep what is *)
(* active or expired within the last six hours                        *)
pruneTradeBoard(s) ==
    LET marked == [i \in DOMAIN s.tradeBoard |->
                      IF s.tradeBoard[i].status = "active" /\ s.tradeBoard[i].expiresAt <= now
                      THEN [s.tradeBoard[i] EXCEPT !.status = "expired"]
                      ELSE s.tradeBoard[i]]
        activeOrRecent(l) == l.status = "active" \/ l.expiresAt > now - tradeKeepMs
    IN [s EXCEPT !.tradeBoard = IF Len(marked) > tradeBoardLimit
                                THEN SelectSeq(marked, activeOrRecent) ELSE marked]

(* tradeBoard.find(pred): of the indices `found` of the listings that *)
(* satisfy pred the first, or 0                                      *)
findListing(found) ==
    IF found = {} THEN 0 ELSE CHOOSE i \in found : \A j \in found : i <= j

(* panelTradeBuy from `buyer.gold -= entry.price` to `await persistTradeBoard` *)
settleTrade(s0, req, buyer, seller) ==
    The({ (
        LET i == findListing({ j \in DOMAIN s.tradeBoard : s.tradeBoard[j].id = req.listingId })
            entry == s.tradeBoard[i]
            s1 == [s EXCEPT !.heap[buyer].gold = @ - entry.price,
                            !.heap[buyer].inventory = Append(@, entry.item)]
            s2 == [s1 EXCEPT !.heap[seller].gold = @ + entry.price,
                             !.tradeBoard[i].status = "sold"]
        IN Await(s2, [pc |-> "persistTradeBoard.mkdir", op |-> "panelTradeBuy", req |-> req,
                      buyer |-> buyer, entry |-> entry]) )
          : s \in {s0} })

(* panelTradeBuy from `const entry = tradeBoard.find(...)` on *)
panelTradeBuy(s0, req, buyer) ==
    The({ (
        LET i == findListing({ j \in DOMAIN s.tradeBoard :
                                 /\ s.tradeBoard[j].id = req.listingId
                                 /\ s.tradeBoard[j].status = "active"
                                 /\ s.tradeBoard[j].expiresAt > now })
            entry == s.tradeBoard[i]
            sellerKey == ids(entry.seller, entry.channel).scopedKey
        IN IF i = 0 THEN Done(status(s, "listing unavailable"))
           ELSE IF s.heap[buyer].gold < entry.price THEN Done(status(s, "not enough gold"))
           ELSE IF Len(s.heap[buyer].inventory) >= s.heap[buyer].inventoryCap
                THEN Done(status(s, "inventory full"))
           ELSE IF MapHas(s.players, sellerKey)
                THEN settleTrade(s, req, buyer, s.players[sellerKey])
           ELSE Await(s, [pc |-> "loadPlayer", at |-> "seller", op |-> "panelTradeBuy",
                          req |-> req, buyer |-> buyer, seller |-> entry.seller,
                          sellerKey |-> sellerKey]) )
          : s \in {s0} })

(* panelTradeCancel from `const entry = tradeBoard.find(...)` on *)
panelTradeCancel(s0, req, o) ==
    The({ (
        LET i == findListing({ j \in DOMAIN s.tradeBoard :
                                 /\ s.tradeBoard[j].id = req.listingId
                                 /\ s.tradeBoard[j].status = "active" })
            entry == s.tradeBoard[i]
            state == s.heap[o]
            s1 == [s EXCEPT !.tradeBoard[i].status = "cancelled"]
            s2 == IF Len(state.inventory) < state.inventoryCap
                  THEN [s1 EXCEPT !.heap[o].inventory = Append(@, entry.item)]
                  ELSE [s1 EXCEPT !.heap[o].gold = @ + entry.item.value]
        IN IF i = 0 THEN Done(status(s, "listing not found"))
           ELSE IF entry.seller # state.username
                THEN Done(status(s, "cannot cancel others' listings"))
           ELSE Await(s2, [pc |-> "persistTradeBoard.mkdir", op |-> "panelTradeCancel",
                           req |-> req, buyer |-> o, entry |-> entry]) )
          : s \in {s0} })

(* inventory.findIndex(i => i.id is itemId): 0 when absent *)
findIndexById(inventory, itemId) ==
    LET found == { i \in 1..Len(inventory) : inventory[i].id = itemId }
    IN IF found = {} THEN 0 ELSE CHOOSE i \in found : \A j \in found : i <= j

(* A panelTradeList that lists the item and leaves it in the inventory *)
panelTradeListKeepsItem(s0, req, o) ==
    The({ (
        LET state == s.heap[o]
            idx == findIndexById(state.inventory, req.itemId)
            listing == [id |-> s.uuid, seller |-> state.username, channel |-> req.channel,
                        item |-> state.inventory[idx], price |-> MathMax(1, req.price),
                        createdAt |-> now, expiresAt |-> now + tradeTtlMs,
                        status |-> "active", sellerScopedKey |-> state.scopedKey]
        IN IF ~state.tradingUnlocked THEN Done(status(s, "trading is locked"))
           ELSE IF idx = 0 THEN Done(status(s, "item not found"))
           ELSE Await([s EXCEPT !.tradeBoard = Append(@, listing), !.uuid = @ + 1],
                      [pc |-> "persistTradeBoard.mkdir", op |-> "panelTradeList",
                       req |-> req, buyer |-> o, entry |-> listing]) )
          : s \in {s0} })

(* panelTradeList from `if (!state.tradingUnlocked)` to `await             *)
(* persistTradeBoard`; the price of a request is a whole number.  The      *)
(* tradeListings of a record are written only and left out.                *)
panelTradeList(s0, req, o) ==
    The({ (
        LET state == s.heap[o]
            idx == findIndexById(state.inventory, req.itemId)
            item == state.inventory[idx]
            listing == [id |-> s.uuid, seller |-> state.username, channel |-> req.channel,
                        item |-> item, price |-> MathMax(1, req.price),
                        createdAt |-> now, expiresAt |-> now + tradeTtlMs,
                        status |-> "active", sellerScopedKey |-> state.scopedKey]
            s1 == [s EXCEPT !.heap[o].inventory = splice(@, idx),
                            !.tradeBoard = Append(@, listing),
                            !.uuid = @ + 1]
        IN IF ~state.tradingUnlocked THEN Done(status(s, "trading is locked"))
           ELSE IF idx = 0 THEN Done(status(s, "item not found"))
           ELSE Await(s1, [pc |-> "persistTradeBoard.mkdir", op |-> "panelTradeList",
                           req |-> req, buyer |-> o, entry |-> listing]) )
          : s \in {s0} })

(* Any of the operations once `await loadPlayer(username, channel)` has *)
(* returned                                                             *)
panelTradeLoaded(s, req, o) ==
    CASE req.op = "panelTradeBuy" -> panelTradeBuy(s, req, o)
      [] req.op = "panelTradeList" -> panelTradeList(s, req, o)
      [] OTHER -> panelTradeCancel(s, req, o)

(* Any of the operations once `await loadTradeBoard(channel)` has returned; *)
(* panelTradeBuy and panelTradeCancel prune the board first                *)
panelTradeBoardLoaded(s0, req) ==
    The({ (
        LET scopedKey == ids(req.username, req.channel).scopedKey
        IN IF MapHas(s.players, scopedKey)
           THEN panelTradeLoaded(s, req, s.players[scopedKey])
           ELSE Await(s, [pc |-> "loadPlayer", at |-> "buyer", op |-> req.op, req |-> req]) )
          : s \in { IF req.op = "panelTradeList" THEN s0 ELSE pruneTradeBoard(s0) } })

(* loadTradeBoard up to `await ensureDataDir()`, or to its early return *)
loadTradeBoard(s, req) ==
    IF s.tradeLoadedChan = Some(toLowerCase(req.channel))
    THEN panelTradeBoardLoaded(s, req)
    ELSE Await([s EXCEPT !.tradeLoadedChan = Some(toLowerCase(req.channel))],
               [pc |-> "loadTradeBoard.mkdir", op |-> req.op, req |-> req])

(* The lines that end panelTradeList, panelTradeBuy and panelTradeCancel *)
panelTradeSaved(s, frame) ==
    emit(status(s, CASE frame.op = "panelTradeBuy" -> "bought"
                     [] frame.op = "panelTradeList" -> "listed"
                     [] OTHER -> "cancelled listing"),
         [type |-> "inventory", state |-> ensurePublic(s.heap[frame.buyer])])

(* getPanelData from `const catalog = getCatalogSnapshot()` on.  Of the *)
(* snapshot it returns the model keeps the trade board.                *)
getPanelDataBoard(s0, req, picks) ==
    The({ ( emit(s, [type |-> "panel", user |-> req.username,
                     tradeBoard |-> SelectSeq(s.tradeBoard, LAMBDA l : l.status = "active")]) )
          : s \in { pruneTradeBoard(currentStoreItems(s0, picks).s) } })

(* getPanelData from `await loadTradeBoard()` on.  loadTradeBoard is called *)
(* without a channel: it loads the board of TWITCH_CHANNEL, which is the    *)
(* channel of the request here.  The Helix lookup before it yields no new   *)
(* display name, so nothing is saved.                                       *)
getPanelData(s, req, o, picks) ==
    IF s.tradeLoadedChan = Some(toLowerCase(req.channel))
    THEN Done(getPanelDataBoard(s, req, picks))
    ELSE Await([s EXCEPT !.tradeLoadedChan = Some(toLowerCase(req.channel))],
               [pc |-> "loadTradeBoard.mkdir", op |-> "getPanelData", req |-> req,
                buyer |-> o])

----------------------------------------------------------------------------
(* Crafting.  A request is [op, username, channel, recipeId]; the costs of *)
(* a recipe are kept in the order of Object.entries, and a recipe that     *)
(* grants no materials has the empty list of them.                         *)

craftingRecipes == <<
    [id |-> "crafting-booster-kit",
     costs |-> << [mat |-> "tide-shard", cost |-> 2], [mat |-> "ember-fragment", cost |-> 1] >>,
     grantsItem |-> [name |-> "Crafting Booster Kit", rarity |-> "epic", value |-> 0,
                     type |-> "token"],
     grantsMaterials |-> <<>>],
    [id |-> "enchanters-spark",
     costs |-> << [mat |-> "ember-fragment", cost |-> 2], [mat |-> "abyssal-ink", cost |-> 1],
                  [mat |-> "frost-crystal", cost |-> 1] >>,
     grantsItem |-> [name |-> "Enchanter's Spark", rarity |-> "legendary", value |-> 0,
                     type |-> "token"],
     grantsMaterials |-> <<>>],
    [id |-> "tide-luck-charm",
     costs |-> << [mat |-> "tide-shard", cost |-> 3], [mat |-> "astral-fiber", cost |-> 1] >>,
     grantsItem |-> [name |-> "Luck Charm", rarity |-> "rare", value |-> 0, type |-> "token"],
     grantsMaterials |-> <<>>],
    [id |-> "synthesize-cosmic-dust",
     costs |-> << [mat |-> "astral-fiber", cost |-> 6], [mat |-> "frost-crystal", cost |-> 5],
                  [mat |-> "abyssal-ink", cost |-> 4] >>,
     grantsItem |-> null,
     grantsMaterials |-> << [mat |-> "cosmic-dust", cost |-> 1] >>] >>

(* data/catalog has no recipes of its own *)
getCraftingRecipes == craftingRecipes

(* getCraftingRecipes().find(r => r.id is recipeId), or null *)
findRecipe(recipeId) ==
    IF \E i \in DOMAIN getCraftingRecipes : getCraftingRecipes[i].id = recipeId
    THEN getCraftingRecipes[CHOOSE i \in DOMAIN getCraftingRecipes :
                                /\ getCraftingRecipes[i].id = recipeId
                                /\ \A j \in 1..(i - 1) : getCraftingRecipes[j].id # recipeId]
    ELSE null

(* A check of the costs that looks at the last cost only *)
firstShortOfLast(materials, costs) ==
    IF materials[costs[Len(costs)].mat] < costs[Len(costs)].cost
    THEN <<costs[Len(costs)].mat>> ELSE <<>>

(* The first loop of panelCraft: the first material that is short, if any *)
firstShort(materials, costs) ==
    LET short == { i \in DOMAIN costs : materials[costs[i].mat] < costs[i].cost }
    IN IF short = {} THEN <<>>
       ELSE <<costs[CHOOSE i \in short : \A j \in short : i <= j].mat>>

(* The second loop: every cost is deducted *)
RECURSIVE deductCosts(_, _)
deductCosts(materials, costs) ==
    IF costs = <<>> THEN materials
    ELSE deductCosts([materials EXCEPT ![Head(costs).mat] = MathMax(0, @ - Head(costs).cost)],
                     Tail(costs))

(* The loop over grantedMaterials *)
RECURSIVE addMaterials(_, _)
addMaterials(materials, granted) ==
    IF granted = <<>> THEN materials
    ELSE addMaterials([materials EXCEPT ![Head(granted).mat] = @ + Head(granted).cost],
                      Tail(granted))

(* panelCraft from `if (!state.craftingUnlocked)` on *)
panelCraft(s0, req, o) ==
    The({ (
        LET state == s.heap[o]
            recipe == findRecipe(req.recipeId)
            short == firstShort(state.materials, recipe.costs)
            paid == [state EXCEPT !.materials = deductCosts(@, recipe.costs)]
            item == IF recipe.grantsItem = null THEN null
                    ELSE [id |-> s.uuid, name |-> recipe.grantsItem.name,
                          rarity |-> recipe.grantsItem.rarity, value |-> recipe.grantsItem.value,
                          type |-> recipe.grantsItem.type]
            grantedMaterials == recipe.grantsMaterials
            refined == IF grantedMaterials = <<>> THEN paid
                       ELSE [paid EXCEPT !.materials = addMaterials(@, grantedMaterials)]
            full == Len(refined.inventory) >= refined.inventoryCap
            crafted == IF item = null THEN refined
                       ELSE IF full THEN [refined EXCEPT !.gold = @ + item.value]
                       ELSE [refined EXCEPT !.inventory = Append(@, item)]
            s1 == [s EXCEPT !.heap[o] = crafted,
                            !.uuid = IF item = null THEN @ ELSE @ + 1]
            s2 == IF grantedMaterials = <<>> THEN s1 ELSE status(s1, "crafted materials")
            s3 == IF item = null THEN s2
                  ELSE IF full THEN status(s2, "bag full; auto-sold crafted")
                  ELSE status(s2, "crafted")
        IN IF ~state.craftingUnlocked THEN status(s, "crafting is locked")
           ELSE IF recipe = null THEN status(s, "unknown recipe")
           ELSE IF short # <<>>
                THEN emit(s, [type |-> "status", text |-> "not enough", mat |-> short[1]])
           ELSE emit(s3, [type |-> "inventory", state |-> ensurePublic(crafted)]) )
          : s \in {s0} })


----------------------------------------------------------------------------
(* Steps of the event loop *)

(* Objects no map, timer or suspended call refers to are collected. *)
Reachable(s, frames) ==
    { s.players[k] : k \in DOMAIN s.players }
    \cup { t.closure.state
             : t \in { u \in s.timers : u.kind \in {"tug", "decay", "buff", "charm"} } }
    \cup { frames[i].state : i \in { j \in 1..Len(frames) : "state" \in DOMAIN frames[j] } }
    \cup { frames[i].buyer : i \in { j \in 1..Len(frames) : "buyer" \in DOMAIN frames[j] } }

Commit(s, frames, disk, label) ==
    LET live == Reachable(s, frames) \cap DOMAIN s.heap
    IN /\ heap' = [o \in live |-> s.heap[o]]
       /\ players' = s.players
       /\ timers' = s.timers
       /\ tugTimers' = s.tugTimers
       /\ decayTimers' = s.decayTimers
       /\ interactionLock' = s.interactionLock
       /\ lastCommandAt' = s.lastCommandAt
       /\ lastGlobalCommandAt' = s.lastGlobalCommandAt
       /\ userCommandCooldownMs' = s.userCommandCooldownMs
       /\ globalCommandCooldownMs' = s.globalCommandCooldownMs
       /\ activeEvents' = s.activeEvents
       /\ eventTimers' = s.eventTimers
       /\ castSeq' = [s.castSeq EXCEPT
                          !.of = [o \in live \cap DOMAIN s.castSeq.of |-> s.castSeq.of[o]]]
       /\ sessionOpenedAt' = s.sessionOpenedAt
       /\ themeSent' = s.themeSent
       /\ catalogOverrides' = s.catalogOverrides
       /\ lastStoreRefresh' = s.lastStoreRefresh
       /\ storeRotationVersion' = s.storeRotationVersion
       /\ storeRotation' = s.storeRotation
       /\ charmTimers' = s.charmTimers
       /\ xpBuffTimers' = s.xpBuffTimers
       /\ valueBuffTimers' = s.valueBuffTimers
       /\ uuid' = s.uuid
       /\ tradeBoard' = s.tradeBoard
       /\ tradeLoadedChan' = s.tradeLoadedChan
       /\ inflight' = frames
       /\ saved' = disk
       /\ out' = s.out
       /\ act' = [f \in (DOMAIN label) \cup {"called"} |->
                      IF f = "called" THEN s.called ELSE label[f]]
       /\ UNCHANGED now

Without(frames, i) == SubSeq(frames, 1, i - 1) \o SubSeq(frames, i + 1, Len(frames))

Resumed(r, i) == IF r.frame = null THEN Without(inflight, i)
                 ELSE [inflight EXCEPT ![i] = r.frame]

DueTimers == { t \in timers : t.due <= now }

(* History: the cached record of the sender before the step, if any; the *)
(* label of a command also keeps the lock as it was before the step      *)
Before(payload) ==
    LET scopedKey == ids(payload.username, toLowerCase(payload.channel)).scopedKey
    IN IF MapHas(players, scopedKey) THEN heap[players[scopedKey]] ELSE null

(* History: in s, the cached record of the sender of a request and that of *)
(* the seller of the listing it names, if any                              *)
RecordIn(s, req) ==
    LET scopedKey == ids(req.username, toLowerCase(req.channel)).scopedKey
    IN IF MapHas(s.players, scopedKey) THEN s.heap[s.players[scopedKey]] ELSE null

SellerIn(s, req, board) ==
    IF req.op = "panelTradeList" THEN null
    ELSE LET i == findListing({ j \in DOMAIN board : board[j].id = req.listingId })
             sellerKey == ids(board[i].seller, board[i].channel).scopedKey
         IN IF i # 0 /\ MapHas(s.players, sellerKey) THEN s.heap[s.players[sellerKey]]
            ELSE null

(* A chat message or a panel request arrives *)
CommandWithin(payload, rnd, horizon) ==
    /\ now < StartTime + horizon
    /\ Len(inflight) < MaxInflight
    /\ issued < MaxCommands
    /\ issued' = issued + 1
    /\ \E r \in { processChatCommand(Cur, payload, rnd) } :
          Commit(r.s, IF r.frame = null THEN inflight ELSE Append(inflight, r.frame), saved,
                 [name |-> "Command", payload |-> payload, before |-> Before(payload),
                  lock |-> interactionLock])

Command(payload, rnd) == CommandWithin(payload, rnd, MaxTime)

(* The file I/O of loadPlayer completes *)
LoadDone(i, rnd) ==
    /\ UNCHANGED issued
    /\ inflight[i].pc = "loadPlayer"
    /\ inflight[i].at \in {"dispatch", "locked", "cooldown"}
    /\ \E l \in { loadPlayer(Cur, inflight[i].ctx.payload.username, inflight[i].ctx.scopedKey) } :
       \E r \in { IF inflight[i].at = "dispatch"
                  THEN dispatch(l.s, inflight[i].ctx, l.state, rnd)
                  ELSE Done(pushLog(emitInventoryLocked(l.s, l.state, inflight[i].reason),
                                    "blocked")) } :
          Commit(r.s, Resumed(r, i), saved,
                 [name |-> "LoadDone", payload |-> inflight[i].ctx.payload,
                  at |-> inflight[i].at])

(* savePlayer: ensureDataDir() completes; the record is serialised and written *)
MkdirDone(i) ==
    /\ UNCHANGED issued
    /\ inflight[i].pc = "savePlayer.mkdir"
    /\ LET frame == inflight[i]
           state == heap[frame.state]
           writing == [f \in (DOMAIN frame) \cup {"path", "data"} |->
                          CASE f = "pc" -> "savePlayer.writeFile"
                            [] f = "path" -> state.scopedKey
                            [] f = "data" -> ensurePublic(state)
                            [] OTHER -> frame[f]]
       IN Commit(Cur, [inflight EXCEPT ![i] = writing], saved,
                 [name |-> "MkdirDone", payload |-> frame.ctx.payload])

(* savePlayer: writeFile completes and the caller goes on *)
WriteDone(i) ==
    /\ UNCHANGED issued
    /\ inflight[i].pc = "savePlayer.writeFile"
    /\ \E frame \in { inflight[i] } :
       \E s1 \in { CASE frame.caller = "handleReel" ->
                        [handleReelSaved(Cur, frame.state, frame.locals)
                             EXCEPT !.lastCommandAt = MapSet(@, frame.ctx.scopedKey, now)]
                     [] frame.caller = "handleResetProfile" ->
                        pushLog(inventoryEvent(status(Cur, "reset profile to defaults"),
                                               frame.state), "reset profile (mod action)")
                     [] OTHER ->
                        pushLog(emit(Cur, [type |-> "save", ok |-> TRUE]),
                                "saved their progress") } :
          Commit(s1, Without(inflight, i), MapSet(saved, frame.path, frame.data),
                 [name |-> "WriteDone", payload |-> frame.ctx.payload, caller |-> frame.caller])

(* A timer that is due fires *)
TimerFire(t) ==
    /\ UNCHANGED issued
    /\ t \in DueTimers
    /\ \E s1 \in { [Cur EXCEPT !.timers = @ \ {t}] } :
       \E s2 \in { CASE t.kind = "tug" -> tugCallback(s1, t.closure)
                     [] t.kind = "decay" -> decayCallback(s1, t.closure)
                     [] t.kind = "lock" -> lockCallback(s1)
                     [] t.kind = "event" ->
                            clearGlobalEvent(s1, TRUE, t.closure.id, "duration reached")
                     [] t.kind = "buff" -> buffCallback(s1, t.closure)
                     [] t.kind = "charm" -> charmCallback(s1, t.closure)
                     [] OTHER -> s1 } :
          Commit(s2, inflight, saved, [name |-> "TimerFire", timer |-> t])

(* A request of the panel for the trade board arrives *)
PanelRequest(req) ==
    /\ now < StartTime + MaxTime
    /\ Len(inflight) < MaxInflight
    /\ issued < MaxCommands
    /\ issued' = issued + 1
    /\ \E r \in { loadTradeBoard(Cur, req) } :
          Commit(r.s, IF r.frame = null THEN inflight ELSE Append(inflight, r.frame), saved,
                 [name |-> "PanelRequest", req |-> req,
                  before |-> IF tradeLoadedChan = Some(toLowerCase(req.channel))
                             THEN Before(req) ELSE null,
                  seller |-> SellerIn(Cur, req, tradeBoard), board |-> tradeBoard,
                  after |-> RecordIn(r.s, req),
                  sellerAfter |-> SellerIn(r.s, req, tradeBoard)])

(* loadTradeBoard: ensureDataDir() completes, the trade store is read *)
BoardMkdirDone(i) ==
    /\ UNCHANGED issued
    /\ inflight[i].pc = "loadTradeBoard.mkdir"
    /\ Commit(Cur, [inflight EXCEPT ![i].pc = "loadTradeBoard.readFile"], saved,
              [name |-> "BoardMkdirDone", req |-> inflight[i].req])

(* loadTradeBoard: readFile completes (or fails) and the caller goes on *)
BoardReadDone(i) ==
    /\ UNCHANGED issued
    /\ inflight[i].pc = "loadTradeBoard.readFile"
    /\ inflight[i].op # "getPanelData"
    /\ \E path \in { tradeStorePathForChannel(inflight[i].req.channel) } :
       \E s1 \in { IF MapHas(saved, path)
                   THEN pruneTradeBoard([Cur EXCEPT !.tradeBoard = saved[path]])
                   ELSE [Cur EXCEPT !.tradeBoard = <<>>] } :
       \E r \in { panelTradeBoardLoaded(s1, inflight[i].req) } :
          Commit(r.s, Resumed(r, i), saved,
                 [name |-> "BoardReadDone", req |-> inflight[i].req,
                  before |-> Before(inflight[i].req),
                  seller |-> SellerIn(s1, inflight[i].req, s1.tradeBoard),
                  board |-> s1.tradeBoard,
                  after |-> RecordIn(r.s, inflight[i].req),
                  sellerAfter |-> SellerIn(r.s, inflight[i].req, s1.tradeBoard)])

(* The file I/O of a loadPlayer called by a trade operation completes *)
PanelLoadDone(i) ==
    /\ UNCHANGED issued
    /\ inflight[i].pc = "loadPlayer"
    /\ inflight[i].at \in {"buyer", "seller"}
    /\ \E frame \in { inflight[i] } :
       \E l \in { IF frame.at = "buyer"
                  THEN loadPlayer(Cur, frame.req.username,
                                  ids(frame.req.username, frame.req.channel).scopedKey)
                  ELSE loadPlayer(Cur, frame.seller, frame.sellerKey) } :
       \E r \in { IF frame.at = "buyer"
                  THEN panelTradeLoaded(l.s, frame.req, l.state)
                  ELSE settleTrade(l.s, frame.req, frame.buyer, l.state) } :
          Commit(r.s, Resumed(r, i), saved,
                 [name |-> "PanelLoadDone", req |-> frame.req, at |-> frame.at,
                  before |-> IF frame.at = "buyer" THEN l.s.heap[l.state]
                             ELSE heap[frame.buyer],
                  seller |-> IF frame.at = "buyer" THEN SellerIn(l.s, frame.req, tradeBoard)
                             ELSE l.s.heap[l.state],
                  board |-> tradeBoard,
                  after |-> IF frame.at = "buyer" THEN r.s.heap[l.state]
                            ELSE r.s.heap[frame.buyer],
                  sellerAfter |-> IF frame.at = "buyer"
                                  THEN SellerIn(r.s, frame.req, tradeBoard)
                                  ELSE r.s.heap[l.state]])

(* persistTradeBoard: ensureDataDir() completes; the board is serialised *)
PersistMkdirDone(i) ==
    /\ UNCHANGED issued
    /\ inflight[i].pc = "persistTradeBoard.mkdir"
    /\ LET frame == inflight[i]
           writing == [f \in (DOMAIN frame) \cup {"path", "data"} |->
                          CASE f = "pc" -> "persistTradeBoard.writeFile"
                            [] f = "path" -> tradeStorePathForChannel(frame.req.channel)
                            [] f = "data" -> tradeBoard
                            [] OTHER -> frame[f]]
       IN Commit(Cur, [inflight EXCEPT ![i] = writing], saved,
                 [name |-> "PersistMkdirDone", req |-> frame.req])

(* persistTradeBoard: writeFile completes and the caller goes on *)
PersistWriteDone(i) ==
    /\ UNCHANGED issued
    /\ inflight[i].pc = "persistTradeBoard.writeFile"
    /\ \E frame \in { inflight[i] } :
          Commit(panelTradeSaved(Cur, frame), Without(inflight, i),
                 MapSet(saved, frame.path, frame.data),
                 [name |-> "PersistWriteDone", req |-> frame.req])

(* The panel asks for its snapshot: getPanelData up to the file I/O of its *)
(* loadPlayer or of its loadTradeBoard, or to its end                     *)
PanelData(req, rnd) ==
    /\ now < StartTime + MaxTime
    /\ Len(inflight) < MaxInflight
    /\ issued < MaxCommands
    /\ issued' = issued + 1
    /\ \E scopedKey \in { ids(req.username, req.channel).scopedKey } :
          IF MapHas(players, scopedKey)
          THEN \E r \in { getPanelData(Cur, req, players[scopedKey], rnd.picks) } :
                  Commit(r.s, IF r.frame = null THEN inflight ELSE Append(inflight, r.frame),
                         saved, [name |-> "PanelData", req |-> req, board |-> tradeBoard])
          ELSE Commit(Cur, Append(inflight, [pc |-> "loadPlayer", at |-> "panelData",
                                             req |-> req]),
                      saved, [name |-> "PanelData", req |-> req, board |-> tradeBoard])

(* The file I/O of getPanelData's loadPlayer completes *)
PanelDataLoadDone(i, rnd) ==
    /\ UNCHANGED issued
    /\ inflight[i].pc = "loadPlayer"
    /\ inflight[i].at = "panelData"
    /\ \E req \in { inflight[i].req } :
       \E l \in { loadPlayer(Cur, req.username, ids(req.username, req.channel).scopedKey) } :
       \E r \in { getPanelData(l.s, req, l.state, rnd.picks) } :
          Commit(r.s, Resumed(r, i), saved,
                 [name |-> "PanelDataLoadDone", req |-> req, board |-> tradeBoard])

(* The readFile of getPanelData's loadTradeBoard completes (or fails) and *)
(* getPanelData goes on to its end                                        *)
PanelDataBoardReadDone(i, rnd) ==
    /\ UNCHANGED issued
    /\ inflight[i].pc = "loadTradeBoard.readFile"
    /\ inflight[i].op = "getPanelData"
    /\ \E path \in { tradeStorePathForChannel(inflight[i].req.channel) } :
       \E s1 \in { IF MapHas(saved, path)
                   THEN pruneTradeBoard([Cur EXCEPT !.tradeBoard = saved[path]])
                   ELSE [Cur EXCEPT !.tradeBoard = <<>>] } :
          Commit(getPanelDataBoard(s1, inflight[i].req, rnd.picks), Without(inflight, i),
                 saved, [name |-> "PanelDataBoardReadDone", req |-> inflight[i].req,
                         board |-> s1.tradeBoard])

(* A request of the panel to craft arrives: panelCraft up to the file I/O *)
(* of its loadPlayer, or to its end                                       *)
CraftRequest(req) ==
    /\ now < StartTime + MaxTime
    /\ Len(inflight) < MaxInflight
    /\ issued < MaxCommands
    /\ issued' = issued + 1
    /\ \E scopedKey \in { ids(req.username, req.channel).scopedKey } :
          IF MapHas(players, scopedKey)
          THEN \E s1 \in { panelCraft(Cur, req, players[scopedKey]) } :
                  Commit(s1, inflight, saved,
                         [name |-> "CraftRequest", req |-> req, before |-> Before(req)])
          ELSE Commit(Cur, Append(inflight, [pc |-> "loadPlayer", at |-> "craft", req |-> req]),
                      saved, [name |-> "CraftRequest", req |-> req, before |-> null])

(* The file I/O of panelCraft's loadPlayer completes *)
CraftLoadDone(i) ==
    /\ UNCHANGED issued
    /\ inflight[i].pc = "loadPlayer"
    /\ inflight[i].at = "craft"
    /\ \E req \in { inflight[i].req } :
       \E l \in { loadPlayer(Cur, req.username, ids(req.username, req.channel).scopedKey) } :
       \E s1 \in { panelCraft(l.s, req, l.state) } :
          Commit(s1, Without(inflight, i), saved,
                 [name |-> "CraftLoadDone", req |-> req, before |-> l.s.heap[l.state]])


(* panelStoreRefresh from `const now = Date.now()` on *)
panelStoreRefresh(s, o, picks) ==
    LET state == s.heap[o]
        last == IF MapHas(s.lastStoreRefresh, state.scopedKey)
                THEN s.lastStoreRefresh[state.scopedKey] ELSE 0
    IN IF now - last < storeRefreshCooldownMs
       THEN status(s, "store refresh on cooldown")
       ELSE handleStoreRefresh(call(s, "handleStoreRefresh"), o, picks)

(* The panel asks for a store refresh: panelStoreRefresh up to its first *)
(* file I/O, or to its end when the record is cached                     *)
PanelStoreRefresh(payload, rnd, horizon) ==
    /\ now < StartTime + horizon
    /\ Len(inflight) < MaxInflight
    /\ issued < MaxCommands
    /\ issued' = issued + 1
    /\ LET scopedKey == ids(payload.username, toLowerCase(payload.channel)).scopedKey
           ctx == [payload |-> payload, command |-> payload.command, scopedKey |-> scopedKey]
       IN IF MapHas(players, scopedKey)
          THEN \E s1 \in { panelStoreRefresh(call(Cur, "panelStoreRefresh"),
                                             players[scopedKey], rnd.picks) } :
                  Commit(s1, inflight, saved,
                         [name |-> "PanelStoreRefresh", payload |-> payload,
                          before |-> Before(payload)])
          ELSE Commit(Cur,
                      Append(inflight, [pc |-> "loadPlayer", at |-> "panelStoreRefresh",
                                        ctx |-> ctx]),
                      saved,
                      [name |-> "PanelStoreRefresh", payload |-> payload,
                       before |-> Before(payload)])

(* The file I/O of panelStoreRefresh's loadPlayer completes *)
PanelStoreRefreshLoadDone(i, rnd) ==
    /\ UNCHANGED issued
    /\ inflight[i].pc = "loadPlayer"
    /\ inflight[i].at = "panelStoreRefresh"
    /\ \E l \in { loadPlayer(Cur, inflight[i].ctx.payload.username, inflight[i].ctx.scopedKey) } :
       \E s1 \in { panelStoreRefresh(call(l.s, "panelStoreRefresh"), l.state, rnd.picks) } :
          Commit(s1, Without(inflight, i), saved,
                 [name |-> "PanelStoreRefreshLoadDone", payload |-> inflight[i].ctx.payload])

(* Time passes to the next instant of the grid, never beyond a pending timer; *)
(* file I/O completes within the instant it was started in.                  *)
TickOn(grid, horizon) ==
    /\ DueTimers = {}
    /\ inflight = <<>>
    /\ now < StartTime + horizon \/ timers # {}
    /\ LET target == StartTime + (((now - StartTime) \div grid) + 1) * grid
           dues == { t.due : t \in timers }
       IN now' = IF \E d \in dues : d < target
                 THEN CHOOSE d \in dues : \A e \in dues : d <= e
                 ELSE target
    /\ out' = <<>>
    /\ act' = [name |-> "Tick", called |-> <<>>]
    /\ UNCHANGED <<heap, players, saved, timers, tugTimers, decayTimers, interactionLock,
                   lastCommandAt, lastGlobalCommandAt, userCommandCooldownMs,
                   globalCommandCooldownMs, activeEvents, eventTimers, castSeq,
                   sessionOpenedAt, themeSent, catalogOverrides, lastStoreRefresh,
                   storeRotationVersion, storeRotation,
                   charmTimers, xpBuffTimers, valueBuffTimers,
                   uuid, tradeBoard, tradeLoadedChan, inflight, issued>>

Tick == TickOn(TickGrid, MaxTime)

(* Time passes to the next instant of the grid while file I/O may be *)
(* pending: Date.now() does not wait for a read or a write           *)
Elapse ==
    /\ DueTimers = {}
    /\ now < StartTime + MaxTime
    /\ now' = StartTime + (((now - StartTime) \div TickGrid) + 1) * TickGrid
    /\ out' = <<>>
    /\ act' = [name |-> "Tick", called |-> <<>>]
    /\ UNCHANGED <<heap, players, saved, timers, tugTimers, decayTimers, interactionLock,
                   lastCommandAt, lastGlobalCommandAt, userCommandCooldownMs,
                   globalCommandCooldownMs, activeEvents, eventTimers, castSeq,
                   sessionOpenedAt, themeSent, catalogOverrides, lastStoreRefresh,
                   storeRotationVersion, storeRotation,
                   charmTimers, xpBuffTimers, valueBuffTimers,
                   uuid, tradeBoard, tradeLoadedChan, inflight, issued>>

(* data/catalog.json is put in place: the next require() of it succeeds *)
CatalogInstalled(overrides) ==
    /\ catalogOverrides = null
    /\ catalogOverrides' = overrides
    /\ out' = <<>>
    /\ act' = [name |-> "CatalogInstalled", called |-> <<>>]
    /\ UNCHANGED <<now, heap, players, saved, timers, tugTimers, decayTimers, interactionLock,
                   lastCommandAt, lastGlobalCommandAt, userCommandCooldownMs,
                   globalCommandCooldownMs, activeEvents, eventTimers, castSeq,
                   sessionOpenedAt, themeSent, lastStoreRefresh,
                   storeRotationVersion, storeRotation,
                   charmTimers, xpBuffTimers, valueBuffTimers,
                   uuid, tradeBoard, tradeLoadedChan, inflight, issued>>

----------------------------------------------------------------------------
(* What the callers send, and what is on disk at start *)

chat(username, command, args, isMod) ==
    [username |-> username, command |-> command, args |-> args, isMod |-> isMod,
     isBroadcaster |-> FALSE, channel |-> "x", fromPanel |-> FALSE]

(* The same payload sent in another channel *)
inChannel(payload, channel) == [payload EXCEPT !.channel = channel]

(* processPanelCommand: the same payload with fromPanel set *)
processPanelCommand(payload) == [payload EXCEPT !.fromPanel = TRUE]

Payloads ==
    { chat("Alice", c, <<>>, FALSE) : c \in {"cast", "reel"} }
    \cup { processPanelCommand(chat("Alice", "use", <<"Hook Stabilizer">>, FALSE)) }
    \cup { processPanelCommand(chat("bob", "upgrades", <<>>, TRUE)) }
    \cup { chat("bob", "cooldown", <<"5">>, TRUE) }

(* The draws a command can consume: cast draws the tug delay, reel the catch *)
NoDraw == [eta |-> tugMinDelayMs, drawn |-> [rarity |-> "common", value |-> "min"],
           picks |-> <<0, 0, 0, 0, 0>>]

Rnd(command) ==
    CASE command = "cast" -> { [NoDraw EXCEPT !.eta = e] : e \in DrawnEtas }
      [] command = "reel" -> { [NoDraw EXCEPT !.drawn = d] : d \in Draws }
      [] OTHER -> { NoDraw }

(* A save file of Alice's, one catch short of level 2, that holds a Hook *)
(* Stabilizer bought earlier                                             *)
stabilizerSave ==
    ensurePublic([baseState("Alice", <<"x", "alice">>) EXCEPT
        !.xp = 95,
        !.inventory = << [id |-> 0, name |-> "Hook Stabilizer", rarity |-> "common",
                          value |-> 0, type |-> "token"] >>])

InitialDisks == { EmptyMap, MapSet(EmptyMap, <<"x", "alice">>, stabilizerSave) }

(* The process after start-up, over the files `disk` *)
Boot(disk) ==
    /\ now = StartTime
    /\ heap = EmptyMap
    /\ players = EmptyMap
    /\ saved = disk
    /\ timers = {}
    /\ tugTimers = EmptyMap
    /\ decayTimers = EmptyMap
    /\ interactionLock = null
    /\ lastCommandAt = EmptyMap
    /\ lastGlobalCommandAt = EmptyMap
    /\ userCommandCooldownMs = DEFAULT_USER_COOLDOWN_MS
    /\ globalCommandCooldownMs = DEFAULT_GLOBAL_COOLDOWN_MS
    /\ activeEvents = <<>>
    /\ eventTimers = EmptyMap
    /\ castSeq = [n |-> 0, of |-> EmptyMap, resolved |-> <<>>]
    /\ sessionOpenedAt = 0
    /\ themeSent = FALSE
    /\ catalogOverrides = null
    /\ lastStoreRefresh = EmptyMap
    /\ storeRotationVersion = null
    /\ storeRotation = null
    /\ charmTimers = EmptyMap
    /\ xpBuffTimers = EmptyMap
    /\ valueBuffTimers = EmptyMap
    /\ uuid = 1
    /\ tradeBoard = <<>>
    /\ tradeLoadedChan = None
    /\ inflight = <<>>
    /\ issued = 0
    /\ out = <<>>
    /\ act = [name |-> "Init", called |-> <<>>]

Init == \E disk \in InitialDisks : Boot(disk)

Next ==
    \/ \E payload \in Payloads : \E rnd \in Rnd(payload.command) : Command(payload, rnd)
    \/ \E i \in 1..Len(inflight) : \E rnd \in Rnd(inflight[i].ctx.command) : LoadDone(i, rnd)
    \/ \E i \in 1..Len(inflight) : MkdirDone(i)
    \/ \E i \in 1..Len(inflight) : WriteDone(i)
    \/ \E t \in timers : TimerFire(t)
    \/ Tick

Spec == Init /\ [][Next]_vars

(* The fishing loop alone, with the event loop's guarantees: pending file  *)
(* I/O completes, due timers fire, time passes.                            *)
FishingPayloads == { chat("Alice", c, <<>>, FALSE) : c \in {"cast", "reel"} }

IoDone ==
    \/ \E i \in 1..Len(inflight) : \E rnd \in Rnd(inflight[i].ctx.command) : LoadDone(i, rnd)
    \/ \E i \in 1..Len(inflight) : MkdirDone(i)
    \/ \E i \in 1..Len(inflight) : WriteDone(i)

(* The fault the fail-safe decay is there for: a tug timer is lost, its *)
(* callback never runs                                                 *)
TugLost(t) ==
    /\ t.kind = "tug"
    /\ timers' = timers \ {t}
    /\ out' = <<>>
    /\ act' = [name |-> "TugLost", timer |-> t, called |-> <<>>]
    /\ UNCHANGED <<now, heap, players, saved, tugTimers, decayTimers, interactionLock,
                   lastCommandAt, lastGlobalCommandAt, userCommandCooldownMs,
                   globalCommandCooldownMs, activeEvents, eventTimers, castSeq,
                   sessionOpenedAt, themeSent, catalogOverrides, lastStoreRefresh,
                   storeRotationVersion, storeRotation,
                   charmTimers, xpBuffTimers, valueBuffTimers,
                   uuid, tradeBoard, tradeLoadedChan, inflight, issued>>

NextLive ==
    \/ \E payload \in FishingPayloads : \E rnd \in Rnd(payload.command) : Command(payload, rnd)
    \/ IoDone
    \/ \E t \in timers : TimerFire(t)
    \/ \E t \in timers : TugLost(t)
    \/ Tick

SpecLive ==
    /\ Init
    /\ [][NextLive]_vars
    /\ WF_vars(IoDone)
    /\ WF_vars(\E t \in timers : TimerFire(t))
    /\ WF_vars(Tick)

(* The store, upgrades and inventory sessions of two players, one of them *)
(* a moderator who sets the global cooldown                               *)
SessionPayloads ==
    { processPanelCommand(chat("Alice", c, <<>>, FALSE)) : c \in {"store", "inventory"} }
    \cup { chat("Alice", "store", <<>>, FALSE) }
    \cup { processPanelCommand(chat("bob", "upgrades", <<>>, TRUE)) }
    \cup { chat("bob", "gcooldown", <<"5">>, TRUE) }

NextSession ==
    \/ \E payload \in SessionPayloads : \E rnd \in Rnd(payload.command) : Command(payload, rnd)
    \/ \E i \in 1..Len(inflight) : \E rnd \in Rnd(inflight[i].ctx.command) : LoadDone(i, rnd)
    \/ \E t \in timers : TimerFire(t)
    \/ Tick

SpecSession == Init /\ [][NextSession]_vars

(* The inventory sessions of two players, with the event loop running: *)
(* file I/O completes (a frame leaves inflight), due timers fire (a     *)
(* timer leaves timers) and time passes (now grows)                     *)
InventoryPayloads ==
    { processPanelCommand(chat(u, "inventory", <<>>, FALSE)) : u \in {"Alice", "bob"} }
    \cup { chat("Alice", "inventory", <<>>, FALSE) }

NextSessionLive ==
    \/ \E payload \in InventoryPayloads : Command(payload, NoDraw)
    \/ \E i \in 1..Len(inflight) : LoadDone(i, NoDraw)
    \/ \E t \in timers : TimerFire(t)
    \/ Tick

SpecSessionLive ==
    /\ Init
    /\ [][NextSessionLive]_vars
    /\ WF_vars(\E i \in 1..Len(inflight) : LoadDone(i, NoDraw))
    /\ WF_vars(\E t \in timers : TimerFire(t))
    /\ WF_vars(Tick)

(* One player's session and the commands that renew it *)
RenewPayloads ==
    { processPanelCommand(chat("Alice", "store", <<>>, FALSE)),
      processPanelCommand(chat("Alice", "use", <<"Minnow">>, FALSE)),
      processPanelCommand(chat("Alice", "sell", <<>>, FALSE)),
      processPanelCommand(chat("Alice", "buy", <<"boot">>, FALSE)),
      processPanelCommand(chat("Alice", "buy", <<>>, FALSE)) }

NextRenew ==
    \/ \E payload \in RenewPayloads : \E rnd \in Rnd(payload.command) : Command(payload, rnd)
    \/ \E i \in 1..Len(inflight) : \E rnd \in Rnd(inflight[i].ctx.command) : LoadDone(i, rnd)
    \/ \E t \in timers : TimerFire(t)
    \/ Tick

SpecRenew == Init /\ [][NextRenew]_vars

(* One player's session and the chat commands that are not session *)
(* commands                                                        *)
ClosePayloads ==
    { processPanelCommand(chat("Alice", "store", <<>>, FALSE)) }
    \cup { chat("Alice", c, <<>>, FALSE) : c \in {"fish", "cast", "equip"} }

NextClose ==
    \/ \E payload \in ClosePayloads : \E rnd \in Rnd(payload.command) : Command(payload, rnd)
    \/ \E i \in 1..Len(inflight) : \E rnd \in Rnd(inflight[i].ctx.command) : LoadDone(i, rnd)
    \/ \E t \in timers : TimerFire(t)
    \/ Tick

SpecClose == Init /\ [][NextClose]_vars

(* Two channels: a session in channel x, and in channel y a player of the *)
(* same name, another player and a moderator who sets the global cooldown *)
ChannelPayloads ==
    { processPanelCommand(chat("Alice", "store", <<>>, FALSE)),
      inChannel(processPanelCommand(chat("Alice", "store", <<>>, FALSE)), "y"),
      inChannel(chat("Alice", "fish", <<>>, FALSE), "y"),
      inChannel(chat("bob", "gcooldown", <<"5">>, TRUE), "y") }

NextChannels ==
    \/ \E payload \in ChannelPayloads : \E rnd \in Rnd(payload.command) : Command(payload, rnd)
    \/ \E i \in 1..Len(inflight) : \E rnd \in Rnd(inflight[i].ctx.command) : LoadDone(i, rnd)
    \/ \E t \in timers : TimerFire(t)
    \/ Tick

SpecChannels == Init /\ [][NextChannels]_vars

(* Commands that meet every gate of the dispatcher: a command it does not *)
(* own, chat and panel origins, a moderator's privileged command          *)
GatePayloads ==
    { processPanelCommand(chat("Alice", "store", <<>>, FALSE)),
      chat("Alice", "store", <<>>, FALSE),
      chat("Alice", "cast", <<>>, FALSE),
      chat("Alice", "dance", <<>>, FALSE),
      processPanelCommand(chat("bob", "upgrades", <<>>, TRUE)),
      chat("bob", "gcooldown", <<"5">>, TRUE) }

NextGates ==
    \/ \E payload \in GatePayloads : \E rnd \in Rnd(payload.command) : Command(payload, rnd)
    \/ \E i \in 1..Len(inflight) : \E rnd \in Rnd(inflight[i].ctx.command) : LoadDone(i, rnd)
    \/ \E t \in timers : TimerFire(t)
    \/ Tick

SpecGates == Init /\ [][NextGates]_vars

(* The trade board after a restart: bob listed a Minnow before it, and   *)
(* the store and his save file are on disk; Alice is new.               *)
listedMinnow ==
    [id |-> 0, name |-> "Minnow", rarity |-> "common", value |-> 4, type |-> "fish"]

bobsListing ==
    [id |-> "L1", seller |-> "bob", channel |-> "x", item |-> listedMinnow, price |-> 20,
     createdAt |-> StartTime - 1000000, expiresAt |-> StartTime - 1000000 + tradeTtlMs,
     status |-> "active",
     sellerScopedKey |-> <<"x", "bob">>]

bobsSave ==
    ensurePublic([baseState("bob", <<"x", "bob">>) EXCEPT
        !.tradingUnlocked = TRUE, !.craftingUnlocked = TRUE, !.prestigeCount = 2])

tradeDisk ==
    MapSet(MapSet(EmptyMap, <<"x", "bob">>, bobsSave),
           tradeStorePathForChannel("x"), <<bobsListing>>)

PanelRequests ==
    { [op |-> "panelTradeBuy", username |-> "Alice", channel |-> "x", listingId |-> "L1"],
      [op |-> "panelTradeCancel", username |-> "bob", channel |-> "x", listingId |-> "L1"] }

NextTrade ==
    \/ \E req \in PanelRequests : PanelRequest(req)
    \/ \E i \in 1..Len(inflight) : BoardMkdirDone(i)
    \/ \E i \in 1..Len(inflight) : BoardReadDone(i)
    \/ \E i \in 1..Len(inflight) : PanelLoadDone(i)
    \/ \E i \in 1..Len(inflight) : PersistMkdirDone(i)
    \/ \E i \in 1..Len(inflight) : PersistWriteDone(i)
    \/ Tick

SpecTrade == Boot(tradeDisk) /\ [][NextTrade]_vars

(* Listing: bob has unlocked trading and holds two items; Alice holds one *)
(* and has not unlocked it.  The trade store does not exist yet.          *)
listedTrout ==
    [id |-> 12, name |-> "Trout", rarity |-> "uncommon", value |-> 9, type |-> "fish"]

listSave(username, scopedKey, unlocked, bag) ==
    ensurePublic([baseState(username, scopedKey) EXCEPT
        !.tradingUnlocked = unlocked, !.prestigeCount = IF unlocked THEN 2 ELSE 0,
        !.inventory = bag])

listDisk ==
    MapSet(MapSet(EmptyMap, <<"x", "bob">>,
                  listSave("bob", <<"x", "bob">>, TRUE,
                           <<[listedMinnow EXCEPT !.id = 11], listedTrout>>)),
           <<"x", "alice">>,
           listSave("Alice", <<"x", "alice">>, FALSE, <<[listedMinnow EXCEPT !.id = 11]>>))

ListRequests ==
    { [op |-> "panelTradeList", username |-> "bob", channel |-> "x", itemId |-> 11, price |-> 5],
      [op |-> "panelTradeList", username |-> "bob", channel |-> "x", itemId |-> 12, price |-> 0],
      [op |-> "panelTradeList", username |-> "bob", channel |-> "x", itemId |-> 99, price |-> 5],
      [op |-> "panelTradeList", username |-> "Alice", channel |-> "x", itemId |-> 11,
       price |-> 5] }

NextList ==
    \/ \E req \in ListRequests : PanelRequest(req)
    \/ \E i \in 1..Len(inflight) : BoardMkdirDone(i)
    \/ \E i \in 1..Len(inflight) : BoardReadDone(i)
    \/ \E i \in 1..Len(inflight) : PanelLoadDone(i)
    \/ \E i \in 1..Len(inflight) : PersistMkdirDone(i)
    \/ \E i \in 1..Len(inflight) : PersistWriteDone(i)
    \/ Tick

SpecList == Boot(listDisk) /\ [][NextList]_vars


(* Crafting: Alice has unlocked it and holds the materials of two recipes, *)
(* with a bag that is empty or full; bob is new.                           *)
craftMaterials ==
    [materialDefaults EXCEPT !["tide-shard"] = 2, !["ember-fragment"] = 1,
                             !["astral-fiber"] = 6, !["frost-crystal"] = 5,
                             !["abyssal-ink"] = 4]

craftSave(bag) ==
    ensurePublic([baseState("Alice", <<"x", "alice">>) EXCEPT
        !.craftingUnlocked = TRUE, !.prestigeCount = 1, !.materials = craftMaterials,
        !.inventory = bag])

fullBag == [i \in 1..inventoryCapBase |-> [listedMinnow EXCEPT !.id = i]]

CraftDisks == { MapSet(EmptyMap, <<"x", "alice">>, craftSave(bag)) : bag \in {<<>>, fullBag} }

CraftRequests ==
    { [op |-> "panelCraft", username |-> "Alice", channel |-> "x", recipeId |-> r] :
          r \in {"crafting-booster-kit", "enchanters-spark", "synthesize-cosmic-dust", "nope"} }
    \cup { [op |-> "panelCraft", username |-> "bob", channel |-> "x",
            recipeId |-> "crafting-booster-kit"] }

NextCraft ==
    \/ \E req \in CraftRequests : CraftRequest(req)
    \/ \E i \in 1..Len(inflight) : CraftLoadDone(i)
    \/ Tick

SpecCraft == (\E disk \in CraftDisks : Boot(disk)) /\ [][NextCraft]_vars

(* Cancelling: as for SpecTrade, with bob's bag empty or full; Alice asks *)
(* to cancel bob's listing too, and bob also asks under his display name, *)
(* "Bob", which names the same record                                     *)
CancelDisks ==
    { MapSet(tradeDisk, <<"x", "bob">>, listSave("bob", <<"x", "bob">>, TRUE, bag))
          : bag \in {<<>>, fullBag} }

CancelRequests ==
    PanelRequests
      \cup { [op |-> "panelTradeCancel", username |-> "Alice", channel |-> "x",
              listingId |-> "L1"],
             [op |-> "panelTradeCancel", username |-> "Bob", channel |-> "x",
              listingId |-> "L1"] }

NextCancel ==
    \/ \E req \in CancelRequests : PanelRequest(req)
    \/ \E i \in 1..Len(inflight) : BoardMkdirDone(i)
    \/ \E i \in 1..Len(inflight) : BoardReadDone(i)
    \/ \E i \in 1..Len(inflight) : PanelLoadDone(i)
    \/ \E i \in 1..Len(inflight) : PersistMkdirDone(i)
    \/ \E i \in 1..Len(inflight) : PersistWriteDone(i)
    \/ Tick

SpecCancel == (\E disk \in CancelDisks : Boot(disk)) /\ [][NextCancel]_vars


(* Timed buffs: Alice holds two Trader's Marks and the gold of a few      *)
(* upgrades.  Her save is from a run that ended before she used a mark,   *)
(* or from one that saved her while a mark was in force.                  *)
tradersMark(id) ==
    [id |-> id, name |-> "Trader's Mark", rarity |-> "rare", value |-> 0, type |-> "token"]

buffSave(buffs) ==
    ensurePublic([baseState("Alice", <<"x", "alice">>) EXCEPT
        !.gold = 200, !.inventory = <<tradersMark(21), tradersMark(22)>>,
        !.activeBuffs = buffs])

savedValueBuff == [amount |-> 15, expiresAt |-> StartTime - 60 * 1000]

BuffDisks ==
    { MapSet(EmptyMap, <<"x", "alice">>, buffSave(buffs)) :
        buffs \in { [xp |-> undefined, value |-> undefined],
                    [xp |-> undefined, value |-> savedValueBuff] } }

BuffPayloads ==
    { processPanelCommand(chat("Alice", "use", <<"Trader's Mark">>, FALSE)),
      processPanelCommand(chat("Alice", "buy", <<"rod">>, FALSE)),
      processPanelCommand(chat("Alice", "buy", <<"journal">>, FALSE)) }

NextBuffs ==
    \/ \E payload \in BuffPayloads : \E rnd \in Rnd(payload.command) : Command(payload, rnd)
    \/ \E i \in 1..Len(inflight) : \E rnd \in Rnd(inflight[i].ctx.command) : LoadDone(i, rnd)
    \/ \E t \in timers : TimerFire(t)
    \/ Tick

SpecBuffs == (\E disk \in BuffDisks : Boot(disk)) /\ [][NextBuffs]_vars


(* Charms: Alice holds two Luck Charms (3 min) and a legacy token (2 min) *)
charmToken(id, name) ==
    [id |-> id, name |-> name, rarity |-> "rare", value |-> 0, type |-> "token"]

charmSave ==
    ensurePublic([baseState("Alice", <<"x", "alice">>) EXCEPT
        !.inventory = <<charmToken(31, "Luck Charm"), charmToken(32, "Lucky Coin"),
                        charmToken(33, "Luck Charm")>>])

charmDisk == MapSet(EmptyMap, <<"x", "alice">>, charmSave)

CharmPayloads ==
    { processPanelCommand(chat("Alice", "use", <<name>>, FALSE)) :
        name \in {"Luck Charm", "Lucky Coin"} }
    \cup { processPanelCommand(chat("bob", "use", <<"Luck Charm">>, FALSE)) }

NextCharms ==
    \/ \E payload \in CharmPayloads : \E rnd \in Rnd(payload.command) : Command(payload, rnd)
    \/ \E i \in 1..Len(inflight) : \E rnd \in Rnd(inflight[i].ctx.command) : LoadDone(i, rnd)
    \/ \E t \in timers : TimerFire(t)
    \/ Tick

SpecCharms == Boot(charmDisk) /\ [][NextCharms]_vars


(* Double events: bob moderates and starts one-minute double events of *)
(* requested magnitude 10 and 2 while Alice fishes.                     *)
DoublePayloads ==
    { chat("bob", "event", args, TRUE) :
        args \in { <<"start", "double", "1", "x10">>, <<"start", "double", "1", "x2">> } }
    \cup { chat("Alice", c, <<>>, FALSE) : c \in {"cast", "reel"} }

NextDouble ==
    \/ \E payload \in DoublePayloads : Command(payload, NoDraw)
    \/ \E i \in 1..Len(inflight) : LoadDone(i, NoDraw)
    \/ \E i \in 1..Len(inflight) : MkdirDone(i)
    \/ \E i \in 1..Len(inflight) : WriteDone(i)
    \/ \E t \in timers : TimerFire(t)
    \/ Tick

SpecDouble == Boot(EmptyMap) /\ [][NextDouble]_vars

(* The end of an event: bob starts one-minute double events in the first *)
(* instant and stops the events at any time while Alice fishes; commands *)
(* arrive until just after the events have run out.                      *)
EventHorizon == 65000

EventStart == chat("bob", "event", <<"start", "double", "1", "x10">>, TRUE)

EventPayloads ==
    { chat("bob", "event", <<"stop">>, TRUE) }
    \cup { chat("Alice", c, <<>>, FALSE) : c \in {"cast", "reel"} }

NextEvents ==
    \/ CommandWithin(EventStart, NoDraw, TickGrid)
    \/ \E payload \in EventPayloads : CommandWithin(payload, NoDraw, EventHorizon)
    \/ \E i \in 1..Len(inflight) : LoadDone(i, NoDraw)
    \/ \E i \in 1..Len(inflight) : MkdirDone(i)
    \/ \E i \in 1..Len(inflight) : WriteDone(i)
    \/ \E t \in timers : TimerFire(t)
    \/ Tick

(* A callback that is due is run and file I/O that was started completes *)
SpecEvents ==
    /\ Boot(EmptyMap)
    /\ [][NextEvents]_vars
    /\ WF_vars(\E i \in 1..Len(inflight) : LoadDone(i, NoDraw))
    /\ WF_vars(\E i \in 1..Len(inflight) : MkdirDone(i))
    /\ WF_vars(\E i \in 1..Len(inflight) : WriteDone(i))
    /\ WF_vars(\E t \in timers : TimerFire(t))
    /\ WF_vars(Tick)

(* The store over twelve hours, on a grid of four: Alice and bob refresh *)
(* the store from the panel, Alice buys a Hook Stabilizer, bob opens    *)
(* the store, and a catalog file with a two-hour rotation may be put in *)
(* place.                                                               *)
StoreGrid == 4 * 60 * 60 * 1000
StoreHorizon == 12 * 60 * 60 * 1000

(* The first draws fill the four free slots with the first four items of *)
(* the pool, the Hook Stabilizer among them; the second with the next    *)
(* four                                                                  *)
DrawnPicks == { <<0, 0, 0, 0, 0>>, <<4, 4, 4, 4, 0>> }

StoreRnd == { [NoDraw EXCEPT !.picks = p] : p \in DrawnPicks }

storeSave == ensurePublic([baseState("Alice", <<"x", "alice">>) EXCEPT !.gold = 200])

storeDisk == MapSet(EmptyMap, <<"x", "alice">>, storeSave)

twoHourCatalog ==
    [version |-> Some("1.1.0"), updatedAt |-> None, items |-> None,
     storeConfig |-> Some([rotationHours |-> Some(2), alwaysKeys |-> <<>>, slots |-> None])]

StorePayloads ==
    { processPanelCommand(chat(u, "store-refresh", <<>>, FALSE)) : u \in {"Alice", "bob"} }
    \cup { processPanelCommand(chat("Alice", "buy", <<"hook-stabilizer">>, FALSE)) }
    \cup { processPanelCommand(chat("bob", "store", <<>>, FALSE)) }

NextStore ==
    \/ \E payload \in StorePayloads : \E rnd \in StoreRnd :
          CommandWithin(payload, rnd, StoreHorizon)
    \/ \E rnd \in StoreRnd :
          PanelStoreRefresh(chat("Alice", "store-refresh", <<>>, FALSE), rnd, StoreHorizon)
    \/ \E i \in 1..Len(inflight) : \E rnd \in StoreRnd : LoadDone(i, rnd)
    \/ \E i \in 1..Len(inflight) : \E rnd \in StoreRnd : PanelStoreRefreshLoadDone(i, rnd)
    \/ \E t \in timers : TimerFire(t)
    \/ CatalogInstalled(twoHourCatalog)
    \/ TickOn(StoreGrid, StoreHorizon)

SpecStore == Boot(storeDisk) /\ [][NextStore]_vars


(* Levels: Alice is five xp short of level 2 with a well upgraded rod, a *)
(* Treasure Map, a legacy upgrade item and an Echo Reel in her bag; her  *)
(* catches are common or relic finds.                                    *)
levelSave ==
    ensurePublic([baseState("Alice", <<"x", "alice">>) EXCEPT
        !.xp = 95, !.poleLevel = 5, !.lureLevel = 5, !.luck = 10,
        !.inventory = << [id |-> 41, name |-> "Treasure Map", rarity |-> "rare",
                          value |-> 0, type |-> "map"],
                         [id |-> 42, name |-> "Reinforced Rod", rarity |-> "common",
                          value |-> 0, type |-> "upgrade"],
                         [id |-> 43, name |-> "Echo Reel", rarity |-> "rare",
                          value |-> 0, type |-> "token"] >>])

levelDisk == MapSet(EmptyMap, <<"x", "alice">>, levelSave)

LevelPayloads ==
    { chat("Alice", c, <<>>, FALSE) : c \in {"cast", "reel"} }
    \cup { processPanelCommand(chat("Alice", "use", <<name>>, FALSE)) :
             name \in {"Treasure Map", "Reinforced Rod", "Echo Reel"} }

LevelRnd(command) ==
    IF command = "cast" THEN { NoDraw }
    ELSE { [NoDraw EXCEPT !.drawn = [rarity |-> r, value |-> "min"]] : r \in {"common", "relic"} }

NextLevel ==
    \/ \E payload \in LevelPayloads : \E rnd \in LevelRnd(payload.command) : Command(payload, rnd)
    \/ \E i \in 1..Len(inflight) : \E rnd \in LevelRnd(inflight[i].ctx.command) : LoadDone(i, rnd)
    \/ \E i \in 1..Len(inflight) : MkdirDone(i)
    \/ \E i \in 1..Len(inflight) : WriteDone(i)
    \/ \E t \in timers : TimerFire(t)
    \/ Tick

SpecLevel == Boot(levelDisk) /\ [][NextLevel]_vars


(* Refusals: Alice is in the starting waters with 25 gold, a catch and a *)
(* Waypoint Charter in her bag; the three journals she bought were paid  *)
(* for more than twelve hours ago.  She asks for what she cannot have.   *)
refusedSave ==
    ensurePublic([baseState("Alice", <<"x", "alice">>) EXCEPT
        !.inventory = << [id |-> 51, name |-> "Glass Minnow", rarity |-> "common", value |-> 5],
                         [id |-> 52, name |-> "Waypoint Charter", rarity |-> "rare",
                          value |-> 0, type |-> "token"] >>,
        !.upgradeCharges = MapSet(EmptyMap, "journal",
                                  [count |-> 3, resetAt |-> StartTime - 1000])])

refusedDisk == MapSet(EmptyMap, <<"x", "alice">>, refusedSave)

RefusedPayloads ==
    { processPanelCommand(chat("Alice", "use", <<name>>, FALSE)) :
        name \in {"Waypoint Charter", "old boot"} }
    \cup { processPanelCommand(chat("Alice", "sell", <<"old boot">>, FALSE)) }
    \cup { processPanelCommand(chat("Alice", "buy", <<name>>, FALSE)) :
             name \in {"journal", "hook-stabilizer"} }

NextRefused ==
    \/ \E payload \in RefusedPayloads : Command(payload, NoDraw)
    \/ \E i \in 1..Len(inflight) : LoadDone(i, NoDraw)
    \/ Tick

SpecRefused == Boot(refusedDisk) /\ [][NextRefused]_vars


(* Resets: bob moderates and resets Alice's profile while she fishes, *)
(* looks into her bag and uses a Luck Charm; Alice, who is no         *)
(* moderator, asks for a reset of bob's.                              *)
ResetPayloads ==
    { chat("bob", "reset-profile", <<"Alice">>, TRUE),
      processPanelCommand(chat("Alice", "reset-profile", <<"bob">>, FALSE)),
      chat("Alice", "cast", <<>>, FALSE),
      processPanelCommand(chat("Alice", "inventory", <<>>, FALSE)),
      processPanelCommand(chat("Alice", "use", <<"Luck Charm">>, FALSE)) }

NextReset ==
    \/ \E payload \in ResetPayloads : Command(payload, NoDraw)
    \/ \E i \in 1..Len(inflight) : LoadDone(i, NoDraw)
    \/ \E i \in 1..Len(inflight) : MkdirDone(i)
    \/ \E i \in 1..Len(inflight) : WriteDone(i)
    \/ \E t \in timers : TimerFire(t)
    \/ Tick

SpecReset == Boot(charmDisk) /\ [][NextReset]_vars

(* Prestige: Alice has reached level 59 or 60 with 0 to 3 prestiges *)
(* behind her and the gold of the next one, or one gold less; she   *)
(* asks for the prestige token and looks into her bag, and bob, who *)
(* moderates, resets her profile.                                   *)
prestigeSave(count, level, gold) ==
    ensurePublic([baseState("Alice", <<"x", "alice">>) EXCEPT
        !.level = level, !.xp = 50, !.xpNeeded = 100 + 30 * level, !.gold = gold,
        !.prestigeCount = count,
        !.craftingUnlocked = count >= 1,
        !.tradingUnlocked = count >= 2,
        !.enchantmentsUnlocked = count >= 3])

PrestigeDisks ==
    { MapSet(EmptyMap, <<"x", "alice">>, prestigeSave(0, level, prestigeCost(1) - short))
        : level \in {59, 60}, short \in {0, 1} }
    \cup { MapSet(EmptyMap, <<"x", "alice">>, prestigeSave(count, 60, prestigeCost(count + 1)))
             : count \in 1..3 }

PrestigePayloads ==
    { processPanelCommand(chat("Alice", "buy", <<"prestige">>, FALSE)),
      processPanelCommand(chat("Alice", "inventory", <<>>, FALSE)),
      chat("bob", "reset-profile", <<"Alice">>, TRUE) }

NextPrestige ==
    \/ \E payload \in PrestigePayloads : Command(payload, NoDraw)
    \/ \E i \in 1..Len(inflight) : LoadDone(i, NoDraw)
    \/ \E i \in 1..Len(inflight) : MkdirDone(i)
    \/ \E i \in 1..Len(inflight) : WriteDone(i)
    \/ \E t \in timers : TimerFire(t)
    \/ Tick

SpecPrestige == (\E disk \in PrestigeDisks : Boot(disk)) /\ [][NextPrestige]_vars

(* A listing of bob's that expires between two instants of the grid, on a *)
(* short board and on a board past the limit of pruneTradeBoard: resolved *)
(* listings that expired more than six hours ago, one that expired an     *)
(* hour ago, and one left active on disk long after its expiry            *)
ExpiresAt == StartTime + TickGrid + (TickGrid \div 2)

expiringListing ==
    [bobsListing EXCEPT !.createdAt = ExpiresAt - tradeTtlMs, !.expiresAt = ExpiresAt]

oldListing ==
    [bobsListing EXCEPT !.id = "old", !.status = "sold",
                        !.createdAt = StartTime - tradeKeepMs - 3600000 - tradeTtlMs,
                        !.expiresAt = StartTime - tradeKeepMs - 3600000]

recentListing ==
    [bobsListing EXCEPT !.id = "recent", !.status = "cancelled",
                        !.createdAt = StartTime - 3600000 - tradeTtlMs,
                        !.expiresAt = StartTime - 3600000]

staleListing ==
    [oldListing EXCEPT !.id = "stale", !.status = "active", !.item.name = "Trout"]

crowdedBoard ==
    [i \in 1..(tradeBoardLimit - 2) |-> oldListing]
        \o <<staleListing, recentListing, expiringListing>>

ExpiryDisks ==
    { MapSet(MapSet(EmptyMap, <<"x", "bob">>, bobsSave), tradeStorePathForChannel("x"), board)
          : board \in { <<expiringListing>>, crowdedBoard } }

ExpiryRequests ==
    { [op |-> "panelTradeBuy", username |-> "Alice", channel |-> "x", listingId |-> "L1"],
      [op |-> "panelTradeCancel", username |-> "bob", channel |-> "x", listingId |-> "L1"] }

PanelDataRequests ==
    { [op |-> "getPanelData", username |-> "Alice", channel |-> "x", listingId |-> ""] }

NextExpiry ==
    \/ \E req \in ExpiryRequests : PanelRequest(req)
    \/ \E req \in PanelDataRequests : PanelData(req, NoDraw)
    \/ \E i \in 1..Len(inflight) : BoardMkdirDone(i)
    \/ \E i \in 1..Len(inflight) : BoardReadDone(i)
    \/ \E i \in 1..Len(inflight) : PanelDataBoardReadDone(i, NoDraw)
    \/ \E i \in 1..Len(inflight) : PanelLoadDone(i)
    \/ \E i \in 1..Len(inflight) : PanelDataLoadDone(i, NoDraw)
    \/ \E i \in 1..Len(inflight) : PersistMkdirDone(i)
    \/ \E i \in 1..Len(inflight) : PersistWriteDone(i)
    \/ Elapse

SpecExpiry == (\E disk \in ExpiryDisks : Boot(disk)) /\ [][NextExpiry]_vars

----------------------------------------------------------------------------
(* Properties of the fishing loop *)

InSeq(x, seq) == \E i \in DOMAIN seq : seq[i] = x

KeyOf(payload) == ids(payload.username, toLowerCase(payload.channel)).scopedKey

FishingTimers(ts) == { t \in ts : t.kind \in {"tug", "decay"} }

(* The step about to be taken is a command whose sender's record is cached *)
(* and that enters the handler fn                                          *)
Handles(fn) ==
    /\ act'.name = "Command"
    /\ InSeq(fn, act'.called)
    /\ MapHas(players, KeyOf(act'.payload))

Subject == players[KeyOf(act'.payload)]

SameProgress(o) ==
    /\ heap'[o].gold = heap[o].gold
    /\ heap'[o].xp = heap[o].xp
    /\ heap'[o].level = heap[o].level
    /\ heap'[o].inventory = heap[o].inventory

Progressed(o) ==
    /\ heap'[o].gold > heap[o].gold
    /\ \/ heap'[o].level > heap[o].level
       \/ heap'[o].level = heap[o].level /\ heap'[o].xp > heap[o].xp

NoFishingTimerOf(scopedKey) ==
    /\ ~MapHas(tugTimers', scopedKey)
    /\ ~MapHas(decayTimers', scopedKey)
    /\ \A t \in FishingTimers(timers') : heap'[t.closure.state].scopedKey # scopedKey

SaveStarted(o) ==
    \E i \in DOMAIN inflight' :
        /\ inflight'[i].pc = "savePlayer.mkdir"
        /\ inflight'[i].caller = "handleReel"
        /\ inflight'[i].state = o

(* The last step was a command that entered fn on a cached record *)
Handled(fn) ==
    /\ act.name = "Command"
    /\ InSeq(fn, act.called)
    /\ act.before # null

C4_EarlyReelFails ==
    [][ ( /\ Handles("handleReel")
          /\ heap[Subject].isCasting
          /\ ~heap[Subject].hasTug
          /\ heap[Subject].stabilizerCharges = 0 )
        => ( /\ InSeq([type |-> "catch", user |-> act'.payload.username, success |-> FALSE], out')
             /\ ~heap'[Subject].isCasting
             /\ NoFishingTimerOf(KeyOf(act'.payload))
             /\ SameProgress(Subject) ) ]_vars

C4_Witness ==
    /\ Handled("handleReel")
    /\ act.before.isCasting
    /\ ~act.before.hasTug
    /\ act.before.stabilizerCharges = 0
    /\ InSeq([type |-> "log", line |-> "reeled in too early"], out)

(* C7: a cast while already casting is answered with a status only:      *)
(* the record (isCasting, hasTug and all else) is unchanged and the tug  *)
(* and decay timers are neither cancelled nor rescheduled.               *)
C7_CastWhileCastingRejected ==
    [][ ( /\ Handles("handleCast")
          /\ heap[Subject].isCasting )
        => ( /\ \A i \in DOMAIN out' : out'[i].type \in {"status", "theme"}
             /\ InSeq([type |-> "status", text |-> "already has a line in the water"], out')
             /\ heap'[Subject] = heap[Subject]
             /\ FishingTimers(timers') = FishingTimers(timers)
             /\ tugTimers' = tugTimers
             /\ decayTimers' = decayTimers ) ]_vars

C7_Witness ==
    /\ Handled("handleCast")
    /\ act.before.isCasting
    /\ FishingTimers(timers) # {}

(* C8: a reel while casting, before the tug, with at least one stabilizer *)
(* charge consumes exactly one charge and lands the catch; a reel after   *)
(* the tug consumes none; charges are never negative.                     *)
C8_StabilizerForgivesEarlyReel ==
    [][ /\ ( ( /\ Handles("handleReel")
               /\ heap[Subject].isCasting
               /\ ~heap[Subject].hasTug
               /\ heap[Subject].stabilizerCharges >= 1 )
             => ( /\ heap'[Subject].stabilizerCharges = heap[Subject].stabilizerCharges - 1
                  /\ ~heap'[Subject].isCasting
                  /\ Progressed(Subject)
                  /\ SaveStarted(Subject) ) )
        /\ ( ( /\ Handles("handleReel")
               /\ heap[Subject].isCasting
               /\ heap[Subject].hasTug )
             => heap'[Subject].stabilizerCharges = heap[Subject].stabilizerCharges )
        /\ \A o \in DOMAIN heap' : heap'[o].stabilizerCharges >= 0 ]_vars

C8_Witness ==
    /\ Handled("handleReel")
    /\ act.before.isCasting
    /\ ~act.before.hasTug
    /\ act.before.stabilizerCharges >= 1

(* C9, as stated: a reel by a player who is not casting is answered with *)
(* the 'cast first' status and changes nothing: the record, the timers   *)
(* and the per-player cooldown timestamp are unchanged.                  *)
C9_IdleReelChangesNothing ==
    [][ ( /\ Handles("handleReel")
          /\ ~heap[Subject].isCasting )
        => ( /\ InSeq([type |-> "status", text |-> "needs to !cast first"], out')
             /\ heap'[Subject] = heap[Subject]
             /\ timers' = timers
             /\ lastCommandAt' = lastCommandAt ) ]_vars

(* C6: each cast gets at most one catch event; a decay callback on a record *)
(* that is not casting changes and emits nothing; a pending tug or decay    *)
(* timer belongs to the cast its record is in, never to an earlier one; a   *)
(* tug that fires leaves exactly one decay timer, due one response window   *)
(* later; a player never has more than one decay or tug timer pending.      *)
C6_TimersOfOneCast ==
    /\ [] /\ \A k \in ScopedKeys : \A kind \in {"tug", "decay"} :
                Cardinality({ t \in timers : t.kind = kind
                                             /\ heap[t.closure.state].scopedKey = k }) <= 1
          /\ \A t \in FishingTimers(timers) :
                castSeq.of[t.closure.state].cast = t.closure.cast
          /\ \A i, j \in DOMAIN castSeq.resolved :
                castSeq.resolved[i] = castSeq.resolved[j] => i = j
    /\ [][ /\ ( ( /\ act'.name = "TimerFire"
                  /\ act'.timer.kind = "decay"
                  /\ ~heap[act'.timer.closure.state].isCasting )
                => ( /\ out' = <<>>
                     /\ heap' = heap
                     /\ timers' = timers \ {act'.timer} ) )
           /\ ( (act'.name = "TimerFire" /\ act'.timer.kind = "tug")
                => LET k == heap[act'.timer.closure.state].scopedKey
                   IN { t \in timers' : t.kind = "decay"
                                        /\ heap'[t.closure.state].scopedKey = k }
                      = { [id |-> decayTimers'[k], kind |-> "decay",
                           closure |-> act'.timer.closure,
                           due |-> now + tugResponseWindowMs] } ) ]_vars

C6_Witness ==
    /\ act.name = "TimerFire"
    /\ act.timer.kind = "tug"
    /\ castSeq.n >= 2
    /\ Len(castSeq.resolved) >= 1
    /\ Cardinality(FishingTimers(timers)) = 1

(* C5: every accepted cast ends without any further command: a record is *)
(* never casting later than the tug delay plus the response window plus  *)
(* the safety buffer after its cast, and a cached record that is casting *)
(* eventually is not.                                                    *)
Casting(k) == MapHas(players, k) /\ heap[players[k]].isCasting

C5_CastEndsInTime ==
    /\ [] \A o \in DOMAIN heap :
            heap[o].isCasting
            => now <= castSeq.of[o].at + castSeq.of[o].eta
                      + tugResponseWindowMs + tugFailSafeBufferMs
    /\ \A k \in ScopedKeys : Casting(k) ~> ~Casting(k)

C5_Witness ==
    /\ act.name = "TimerFire"
    /\ act.timer.kind = "decay"
    /\ InSeq([type |-> "status", text |-> "line went slack"], out)
    /\ now = castSeq.of[act.timer.closure.state].at + castSeq.of[act.timer.closure.state].eta
             + tugResponseWindowMs + tugFailSafeBufferMs

----------------------------------------------------------------------------
(* Properties of the interaction lock *)

SessionCommands == {"store", "upgrades", "inventory"}

HeldByOther(payload) ==
    /\ interactionLock # null
    /\ interactionLock.scopedKey # KeyOf(payload)

(* A store or inventory event for the user that carries a `locked` payload *)
LockedEvent(e, username) ==
    /\ e.type \in {"store", "inventory"}
    /\ "locked" \in DOMAIN e
    /\ e.locked.reason = "is using; please wait"
    /\ IF e.type = "store" THEN e.user = username ELSE e.state.username = username

LockedLoadPending(payload) ==
    \E i \in DOMAIN inflight' :
        /\ inflight'[i].pc = "loadPlayer"
        /\ inflight'[i].at = "locked"
        /\ inflight'[i].ctx.payload = payload

(* The lock names at most one holder, a player *)
OneHolder == interactionLock = null \/ interactionLock.scopedKey \in ScopedKeys

(* C1, as stated: while one player holds the lock, a store, upgrades or   *)
(* inventory command of another player, whether the dispatcher handles it *)
(* on arrival or once the sender's record is loaded, leaves the lock's    *)
(* holder, mode, expiry and renewal count as they are and gets a store or *)
(* inventory event with a `locked` payload; the lock has at most one      *)
(* holder.                                                                *)
C1_OtherPlayersCommandRejected ==
    /\ []OneHolder
    /\ [][ ( /\ act'.name \in {"Command", "LoadDone"}
             /\ act'.payload.command \in SessionCommands
             /\ HeldByOther(act'.payload) )
           => ( /\ interactionLock' = interactionLock
                /\ \/ \E i \in DOMAIN out' : LockedEvent(out'[i], act'.payload.username)
                   \/ act'.payload.command = "inventory"
                      /\ LockedLoadPending(act'.payload) ) ]_vars

(* A session is taken over: the step replaces one holder by another *)
C1_Witness ==
    /\ act.name = "LoadDone"
    /\ act.payload.command \in SessionCommands
    /\ InSeq([type |-> "status", text |-> "open - 25s to interact"], out)
    /\ interactionLock # null
    /\ interactionLock.scopedKey = KeyOf(act.payload)
    /\ \E t \in timers : t.kind = "lock" /\ t.id # interactionLock.timer

(* C10, as stated: the `locked` payload of a store or inventory event that *)
(* turns a player away because another player holds the lock carries the   *)
(* holder's remaining session time, the lock's expiresAt minus now.        *)
C10_LockedRemainingIsHolders ==
    [][ ( /\ act'.name \in {"Command", "LoadDone"}
          /\ HeldByOther(act'.payload) )
        => \A i \in DOMAIN out' :
              LockedEvent(out'[i], act'.payload.username)
              => out'[i].locked.remainingMs = Some(interactionLock.expiresAt - now) ]_vars

C10_Witness ==
    /\ act.name \in {"Command", "LoadDone"}
    /\ HeldByOther(act.payload)
    /\ \E i \in DOMAIN out :
          /\ LockedEvent(out[i], act.payload.username)
          /\ out[i].locked.remainingMs # Some(interactionLock.expiresAt - now)

(* The handler a session command is dispatched to, and the mode it opens *)
SessionHandler(command) ==
    CASE command = "store" -> "handleStore"
      [] command = "upgrades" -> "handleUpgrades"
      [] OTHER -> "handleInventory"

ModeOf(command) == IF command = "inventory" THEN "inventory" ELSE "store"

(* C11, as stated: when the holder's store, upgrades or inventory command  *)
(* reaches its handler while the holder's session is open, the holder      *)
(* stays the same, the lock's mode becomes the requested mode, and the     *)
(* lock's expiry becomes a full interaction window from now.               *)
C11_HolderReopenRefreshesExpiry ==
    [][ ( /\ act'.name \in {"Command", "LoadDone"}
          /\ act'.payload.command \in SessionCommands
          /\ InSeq(SessionHandler(act'.payload.command), act'.called)
          /\ interactionLock # null
          /\ interactionLock.scopedKey = KeyOf(act'.payload) )
        => ( /\ interactionLock' # null
             /\ interactionLock'.scopedKey = interactionLock.scopedKey
             /\ interactionLock'.mode = ModeOf(act'.payload.command)
             /\ interactionLock'.expiresAt = now + interactionTimeoutMs ) ]_vars

(* The holder's command was handled and the session still ends when it *)
(* would have ended without it                                         *)
C11_Witness ==
    /\ act.name = "Command"
    /\ act.payload.command \in SessionCommands
    /\ InSeq(SessionHandler(act.payload.command), act.called)
    /\ interactionLock # null
    /\ interactionLock.scopedKey = KeyOf(act.payload)
    /\ interactionLock.mode = ModeOf(act.payload.command)
    /\ interactionLock.expiresAt < now + interactionTimeoutMs

RenewingHandlers == {"handleBuy", "handleSell", "handleUse"}

(* C12: the lock's renewal count never exceeds 2; a renewal sets the      *)
(* expiry to now + 25s; a buy, sell or use of the holder once 2 renewals  *)
(* are used leaves the expiry as it is; the expiry is never later than    *)
(* 25s per window (the first and one per renewal) after the opening, so   *)
(* a session never lasts longer than 75s.                                 *)
C12_RenewalsBounded ==
    /\ [] ( interactionLock # null
            => ( /\ interactionLock.refreshesUsed \in 0..maxInteractionRefreshes
                 /\ interactionLock.expiresAt
                      <= sessionOpenedAt
                         + (1 + interactionLock.refreshesUsed) * interactionTimeoutMs
                 /\ now <= interactionLock.expiresAt
                 /\ now <= sessionOpenedAt
                           + (1 + maxInteractionRefreshes) * interactionTimeoutMs ) )
    /\ [][ ( /\ interactionLock # null
             /\ interactionLock' # null
             /\ sessionOpenedAt' = sessionOpenedAt
             /\ interactionLock'.scopedKey = interactionLock.scopedKey )
           => ( /\ interactionLock'.refreshesUsed # interactionLock.refreshesUsed
                   => ( /\ interactionLock'.refreshesUsed = interactionLock.refreshesUsed + 1
                        /\ interactionLock'.expiresAt = now + interactionTimeoutMs )
                /\ ( /\ interactionLock.refreshesUsed = maxInteractionRefreshes
                     /\ act'.name \in {"Command", "LoadDone"}
                     /\ \E fn \in RenewingHandlers : InSeq(fn, act'.called) )
                   => interactionLock'.expiresAt = interactionLock.expiresAt ) ]_vars

(* A third renewal was asked for and not granted *)
C12_Witness ==
    /\ act.name = "Command"
    /\ \E fn \in RenewingHandlers : InSeq(fn, act.called)
    /\ interactionLock # null
    /\ interactionLock.scopedKey = KeyOf(act.payload)
    /\ interactionLock.refreshesUsed = maxInteractionRefreshes
    /\ interactionLock.expiresAt < now + interactionTimeoutMs

PrivilegedCommands == {"event", "cooldown", "gcooldown", "reset-profile"}

(* The per-player cooldown of the sender has not elapsed *)
CoolingDown(payload) ==
    /\ MapHas(lastCommandAt, KeyOf(payload))
    /\ userCommandCooldownMs - (now - lastCommandAt[KeyOf(payload)]) > 0

(* The command of the step is turned away: no handler is entered and no *)
(* call is left waiting for its record in order to be dispatched        *)
TurnedAway ==
    /\ act'.called = <<>>
    /\ \/ inflight' = inflight
       \/ /\ Len(inflight') = Len(inflight) + 1
          /\ inflight'[Len(inflight')].pc = "loadPlayer"
          /\ inflight'[Len(inflight')].at \in {"locked", "cooldown"}

(* C13: when the timer of a session fires while a lock is held, the lock   *)
(* is destroyed, the closing notice is emitted and the holder's cooldown   *)
(* timestamp becomes the time of the expiry (the lock's expiresAt, when    *)
(* the timer is the lock's own); a non-privileged command of a player      *)
(* whose cooldown has not elapsed is turned away.                          *)
C13_ExpiryClosesAndCoolsDown ==
    [][ /\ ( ( /\ act'.name = "TimerFire"
               /\ act'.timer.kind = "lock"
               /\ interactionLock # null )
             => ( /\ interactionLock' = null
                  /\ InSeq([type |-> "status", text |-> "closed after inactivity"], out')
                  /\ lastCommandAt' = MapSet(lastCommandAt, interactionLock.scopedKey, now)
                  /\ ( ( /\ "timer" \in DOMAIN interactionLock
                         /\ interactionLock.timer = act'.timer.id )
                       => now = interactionLock.expiresAt ) ) )
        /\ ( ( /\ act'.name = "Command"
               /\ act'.payload.command \notin PrivilegedCommands
               /\ CoolingDown(act'.payload) )
             => TurnedAway ) ]_vars

(* The former holder's command after the expiry is answered with the *)
(* cooldown notice                                                   *)
C13_Witness ==
    /\ act.name = "Command"
    /\ act.called = <<>>
    /\ interactionLock = null
    /\ MapHas(lastCommandAt, KeyOf(act.payload))
    /\ now - lastCommandAt[KeyOf(act.payload)] < userCommandCooldownMs
    /\ InSeq([type |-> "status", text |-> "cooldown active"], out)

OwnSessionCommands == {"store", "upgrades", "inventory", "buy", "sell", "use"}

(* The step is a known command of the lock's holder that is not a session *)
(* command                                                                *)
HolderLeaves ==
    /\ act'.name = "Command"
    /\ act'.payload.command \in knownCommands \ OwnSessionCommands
    /\ interactionLock # null
    /\ interactionLock.scopedKey = KeyOf(act'.payload)

(* The session is closed, its timer cancelled, the cooldown timestamps kept *)
ClosedWithoutCooldown ==
    /\ interactionLock' = null
    /\ \A t \in timers' : t.kind # "lock"
    /\ lastCommandAt' = lastCommandAt

GloballyCoolingDown(payload) ==
    /\ ~payload.fromPanel
    /\ globalCommandCooldownMs > 0
    /\ ~payload.isMod
    /\ ~payload.isBroadcaster
    /\ globalCommandCooldownMs
         - (now - (IF MapHas(lastGlobalCommandAt, toLowerCase(payload.channel))
                   THEN lastGlobalCommandAt[toLowerCase(payload.channel)] ELSE 0)) > 0

PanelOnlyCommands == {"store", "store-refresh", "buy", "sell", "use", "inventory", "upgrades",
                      "equip", "trade"}

(* The first gate of the documented order that the command fails on arrival *)
FirstFailingGate(payload) ==
    IF payload.command \notin knownCommands THEN "known"
    ELSE IF GloballyCoolingDown(payload) THEN "global"
    ELSE IF HeldByOther(payload) THEN "lock"
    ELSE IF payload.command \notin PrivilegedCommands /\ CoolingDown(payload) THEN "cooldown"
    ELSE IF ~payload.fromPanel /\ payload.command \in PanelOnlyCommands THEN "panel"
    ELSE "none"

GateText ==
    [global |-> "Global cooldown active", lock |-> "is using; please wait",
     cooldown |-> "cooldown active", panel |-> "this action is panel-only"]

(* The rejections among the events of the step *)
Rejections ==
    { out'[i].text : i \in { j \in DOMAIN out' :
                               /\ out'[j].type = "status"
                               /\ \E g \in DOMAIN GateText : out'[j].text = GateText[g] } }

(* No record object is modified, and every cached player has the record *)
(* it had                                                               *)
KeptRecords ==
    /\ \A o \in DOMAIN heap \cap DOMAIN heap' : heap'[o] = heap[o]
    /\ \A k \in DOMAIN players :
          k \in DOMAIN players' /\ heap'[players'[k]] = heap[players[k]]

DispatchPending(payload) ==
    /\ Len(inflight') = Len(inflight) + 1
    /\ inflight'[Len(inflight')].pc = "loadPlayer"
    /\ inflight'[Len(inflight')].at = "dispatch"
    /\ inflight'[Len(inflight')].ctx.payload = payload

(* C16, as stated: the gates apply in the order known, global cooldown,   *)
(* lock conflict, per-player cooldown (not for the privileged commands),  *)
(* panel-only origin, dispatch.  A command gets the rejection of the      *)
(* first gate it fails and of no other, enters no handler and changes no  *)
(* player record, neither on arrival nor when the load of the sender's    *)
(* record that its rejection waits for completes; a command that fails    *)
(* no gate is dispatched.                                                 *)
C16_GatesInOrder ==
    [][ /\ act'.name = "Command"
           => LET payload == act'.payload
                  g == FirstFailingGate(payload)
              IN CASE g = "known" ->
                        /\ out' = <<>>
                        /\ act'.called = <<>>
                        /\ inflight' = inflight
                        /\ heap' = heap
                   [] g \in {"global", "lock", "cooldown"} ->
                        /\ Rejections = { GateText[g] }
                        /\ TurnedAway
                        /\ KeptRecords
                   [] g = "panel" ->
                        IF MapHas(players, KeyOf(payload))
                        THEN /\ Rejections = { GateText[g] }
                             /\ act'.called = <<>>
                             /\ inflight' = inflight
                             /\ KeptRecords
                        ELSE /\ Rejections = {}
                             /\ act'.called = <<>>
                             /\ DispatchPending(payload)
                   [] OTHER ->
                        /\ Rejections = {}
                        /\ IF MapHas(players, KeyOf(payload))
                           THEN act'.called # <<>>
                           ELSE act'.called = <<>> /\ DispatchPending(payload)
        /\ act'.name = "LoadDone"
           => IF act'.at = "dispatch"
                 /\ ~(~act'.payload.fromPanel /\ act'.payload.command \in PanelOnlyCommands)
              THEN Rejections = {} /\ act'.called # <<>>
              ELSE /\ act'.called = <<>>
                   /\ KeptRecords
                   /\ act'.at = "dispatch" => Rejections = { GateText.panel } ]_vars

(* A command that the origin gate has turned away has replaced the      *)
(* sender's record: the line that is in the water is no longer on it    *)
C16_Witness ==
    /\ act.name = "LoadDone"
    /\ act.called = <<>>
    /\ InSeq([type |-> "status", text |-> "this action is panel-only"], out)
    /\ ~heap[players[KeyOf(act.payload)]].isCasting
    /\ \E t \in FishingTimers(timers) :
          /\ t.closure.state # players[KeyOf(act.payload)]
          /\ heap[t.closure.state].scopedKey = KeyOf(act.payload)
          /\ heap[t.closure.state].isCasting

----------------------------------------------------------------------------
(* Properties of the players' resources *)

(* C2, as stated: every player record always has at most inventoryCap     *)
(* items, gold of at least zero, and no negative material or essence      *)
(* count, also when the trade operations of one player interleave at      *)
(* their awaits.                                                          *)
C2_ResourcesWithinBounds ==
    \A o \in DOMAIN heap :
        /\ Len(heap[o].inventory) <= heap[o].inventoryCap
        /\ heap[o].gold >= 0
        /\ \A m \in DOMAIN heap[o].materials : heap[o].materials[m] >= 0
        /\ \A e \in DOMAIN heap[o].essences : heap[o].essences[e] >= 0

(* One listing bought twice: the second purchase has completed *)
C2_Witness ==
    /\ act.name = "PanelLoadDone"
    /\ act.at = "seller"
    /\ \E o \in DOMAIN heap :
          Cardinality({ i \in DOMAIN heap[o].inventory :
                            heap[o].inventory[i] = listedMinnow }) = 2

----------------------------------------------------------------------------
(* Properties of crafting and of the trade board *)

(* The last step ran panelCraft on the record it found or loaded *)
Crafted == act.name \in {"CraftRequest", "CraftLoadDone"} /\ act.before # null

CraftedRecord == heap[players[ids(act.req.username, act.req.channel).scopedKey]]

RecipeOf(recipeId) ==
    craftingRecipes[CHOOSE i \in DOMAIN craftingRecipes : craftingRecipes[i].id = recipeId]

KnownRecipe(recipeId) == \E i \in DOMAIN craftingRecipes : craftingRecipes[i].id = recipeId

CostOf(recipe, m) ==
    IF \E i \in DOMAIN recipe.costs : recipe.costs[i].mat = m
    THEN recipe.costs[CHOOSE i \in DOMAIN recipe.costs : recipe.costs[i].mat = m].cost
    ELSE 0

GrantOf(recipe, m) ==
    IF \E i \in DOMAIN recipe.grantsMaterials : recipe.grantsMaterials[i].mat = m
    THEN recipe.grantsMaterials[CHOOSE i \in DOMAIN recipe.grantsMaterials :
                                    recipe.grantsMaterials[i].mat = m].cost
    ELSE 0

Affordable(materials, recipe) == \A m \in DOMAIN materials : materials[m] >= CostOf(recipe, m)

(* The craft ran with every cost met *)
CraftPaid ==
    /\ Crafted
    /\ act.before.craftingUnlocked
    /\ KnownRecipe(act.req.recipeId)
    /\ Affordable(act.before.materials, RecipeOf(act.req.recipeId))

(* Every cost is deducted and every granted material added *)
MaterialsSettled ==
    \A m \in DOMAIN act.before.materials :
        CraftedRecord.materials[m]
          = act.before.materials[m] - CostOf(RecipeOf(act.req.recipeId), m)
            + GrantOf(RecipeOf(act.req.recipeId), m)

(* A craft that is refused changes nothing and, when a material is short, *)
(* names one that is                                                      *)
CraftRefusedCleanly ==
    ( Crafted /\ ~CraftPaid )
    => /\ CraftedRecord = act.before
       /\ ( act.before.craftingUnlocked /\ KnownRecipe(act.req.recipeId) )
          => /\ Len(out) = 1
             /\ out[1].type = "status"
             /\ out[1].text = "not enough"
             /\ act.before.materials[out[1].mat]
                  < CostOf(RecipeOf(act.req.recipeId), out[1].mat)

TradeRan(op) ==
    /\ act.name \in {"PanelRequest", "BoardReadDone", "PanelLoadDone"}
    /\ act.req.op = op
    /\ act.before # null
    /\ act.name = "PanelLoadDone" => act.at = "buyer"

(* The requester's record after the step *)
TradeRecord == heap[players[ids(act.req.username, act.req.channel).scopedKey]]

HoldsItem(inventory, itemId) == \E i \in DOMAIN inventory : inventory[i].id = itemId

FirstOf(inventory, itemId) ==
    CHOOSE i \in DOMAIN inventory :
        /\ inventory[i].id = itemId
        /\ \A j \in 1..(i - 1) : inventory[j].id # itemId

ListAccepted ==
    /\ TradeRan("panelTradeList")
    /\ act.before.tradingUnlocked
    /\ HoldsItem(act.before.inventory, act.req.itemId)

(* C18: a successful panelTradeList removes exactly the named item from    *)
(* the seller's inventory and appends exactly one new listing, active and  *)
(* holding that item; when trading is locked for the seller or the item id *)
(* is not in the inventory, the record and the board are left as they were *)
C18_ListMovesItemToBoard ==
    /\ ListAccepted
       => LET idx == FirstOf(act.before.inventory, act.req.itemId)
              last == tradeBoard[Len(tradeBoard)]
          IN /\ Len(TradeRecord.inventory) = Len(act.before.inventory) - 1
             /\ \A j \in DOMAIN TradeRecord.inventory :
                   TradeRecord.inventory[j]
                     = act.before.inventory[IF j < idx THEN j ELSE j + 1]
             /\ [TradeRecord EXCEPT !.inventory = act.before.inventory] = act.before
             /\ Len(tradeBoard) = Len(act.board) + 1
             /\ SubSeq(tradeBoard, 1, Len(act.board)) = act.board
             /\ last.status = "active"
             /\ last.item = act.before.inventory[idx]
             /\ last.seller = act.before.username
             /\ \A j \in 1..Len(act.board) : act.board[j].id # last.id
    /\ ( TradeRan("panelTradeList") /\ ~ListAccepted )
       => /\ TradeRecord = act.before
          /\ tradeBoard = act.board

(* bob lists his second item: the board already holds his first *)
C18_Witness ==
    /\ ListAccepted
    /\ Len(tradeBoard) = 2
    /\ tradeBoard[1].status = "active"
    /\ TradeRecord.inventory = <<>>


(* The last step ran panelTradeBuy on the buyer's record: its validation, *)
(* its settlement after the wait for the seller's record, or both         *)
BuySettling == act.name = "PanelLoadDone" /\ act.req.op = "panelTradeBuy" /\ act.at = "seller"

BuyStep == TradeRan("panelTradeBuy") \/ BuySettling

HasListing(board, listingId) == \E j \in DOMAIN board : board[j].id = listingId

ListingOf(board, listingId) ==
    board[CHOOSE j \in DOMAIN board :
              /\ board[j].id = listingId
              /\ \A k \in 1..(j - 1) : board[k].id # listingId]

Available(board, listingId) ==
    /\ HasListing(board, listingId)
    /\ ListingOf(board, listingId).status = "active"
    /\ ListingOf(board, listingId).expiresAt > now

(* The listing is available to the buyer as the step begins *)
Acceptable ==
    /\ Available(act.board, act.req.listingId)
    /\ act.before.gold >= ListingOf(act.board, act.req.listingId).price
    /\ Len(act.before.inventory) < act.before.inventoryCap

BuySettled == BuySettling \/ ( TradeRan("panelTradeBuy") /\ Acceptable /\ act.seller # null )

Expired(board) ==
    [j \in DOMAIN board |->
        IF board[j].status = "active" /\ board[j].expiresAt <= now
        THEN [board[j] EXCEPT !.status = "expired"] ELSE board[j]]

TradeLeftUntouched ==
    /\ act.after = act.before
    /\ act.seller # null => act.sellerAfter = act.seller
    /\ tradeBoard = Expired(act.board)

(* C19: a panelTradeBuy of an active, unexpired listing that succeeds      *)
(* debits the buyer by the price, credits the seller by the same price,    *)
(* appends the item to the buyer's inventory and marks the listing sold,   *)
(* all in one step; when the listing is unavailable, the buyer's gold is   *)
(* below the price or the buyer's inventory is full, neither record nor    *)
(* the listing changes.                                                    *)
C19_BuySettlesOrLeavesUntouched ==
    /\ ( BuySettled /\ Acceptable )
       => LET entry == ListingOf(act.board, act.req.listingId)
          IN /\ act.after = [act.before EXCEPT !.gold = @ - entry.price,
                                               !.inventory = Append(@, entry.item)]
             /\ act.sellerAfter = [act.seller EXCEPT !.gold = @ + entry.price]
             /\ ListingOf(tradeBoard, act.req.listingId).status = "sold"
    /\ ( BuyStep /\ ~Acceptable ) => TradeLeftUntouched
    /\ ( BuyStep /\ ~BuySettled ) => TradeLeftUntouched

(* A buy settles a listing that its seller has cancelled in the meantime *)
C19_Witness ==
    /\ BuySettling
    /\ ListingOf(act.board, act.req.listingId).status = "cancelled"
    /\ act.after.gold = act.before.gold - ListingOf(act.board, act.req.listingId).price


(* The last step ran panelTradeCancel, and the board as pruned held the *)
(* listing, active                                                      *)
CancelFound ==
    /\ TradeRan("panelTradeCancel")
    /\ HasListing(act.board, act.req.listingId)
    /\ ListingOf(Expired(act.board), act.req.listingId).status = "active"

Cancelled(board, listingId) ==
    [j \in DOMAIN board |->
        IF board[j].id = listingId THEN [board[j] EXCEPT !.status = "cancelled"]
        ELSE board[j]]

(* The requester is the player who listed: the record of the listing's *)
(* seller is the requester's                                           *)
BySeller ==
    LET entry == ListingOf(act.board, act.req.listingId)
    IN ids(entry.seller, entry.channel).scopedKey = act.before.scopedKey

(* C20: a panelTradeCancel by a player who is not the listing's seller is  *)
(* rejected, the listing and both records unchanged; one by the seller     *)
(* marks the listing cancelled and returns the item to the seller's        *)
(* inventory when it has room, and otherwise adds gold equal to the item's *)
(* value and leaves the inventory as it is.                                *)
C20_CancelOnlyBySeller ==
    /\ ( CancelFound /\ ~BySeller )
       => /\ TradeLeftUntouched
          /\ out[Len(out)] = [type |-> "status", text |-> "cannot cancel others' listings"]
    /\ ( CancelFound /\ BySeller )
       => LET entry == ListingOf(act.board, act.req.listingId)
          IN /\ tradeBoard = Cancelled(Expired(act.board), act.req.listingId)
             /\ IF Len(act.before.inventory) < act.before.inventoryCap
                THEN act.after = [act.before EXCEPT !.inventory = Append(@, entry.item)]
                ELSE act.after = [act.before EXCEPT !.gold = @ + entry.item.value]
    /\ ( TradeRan("panelTradeCancel") /\ ~CancelFound ) => TradeLeftUntouched

(* bob's record was loaded under the name "Bob": his cancel of his own *)
(* listing is turned away                                              *)
C20_Witness ==
    /\ CancelFound
    /\ BySeller
    /\ act.before.username # ListingOf(act.board, act.req.listingId).seller
    /\ TradeLeftUntouched
    /\ out[Len(out)] = [type |-> "status", text |-> "cannot cancel others' listings"]

(* The cancel as the code decides it, by the name on the listing *)
CancelByName ==
    /\ ( CancelFound /\ ListingOf(act.board, act.req.listingId).seller # act.before.username )
       => TradeLeftUntouched
    /\ ( CancelFound /\ ListingOf(act.board, act.req.listingId).seller = act.before.username )
       => LET entry == ListingOf(act.board, act.req.listingId)
          IN /\ tradeBoard = Cancelled(Expired(act.board), act.req.listingId)
             /\ IF Len(act.before.inventory) < act.before.inventoryCap
                THEN act.after = [act.before EXCEPT !.inventory = Append(@, entry.item)]
                ELSE act.after = [act.before EXCEPT !.gold = @ + entry.item.value]

(* C21: the status of a listing moves one way: from active at most once to *)
(* sold, cancelled or expired, and once it is one of those three it never  *)
(* changes again, however panelTradeBuy, panelTradeCancel and the pruning  *)
(* of the board interleave.                                                *)
C21_StatusOneWay ==
    [][ \A j \in DOMAIN tradeBoard : \A k \in DOMAIN tradeBoard' :
            ( tradeBoard'[k].id = tradeBoard[j].id /\ tradeBoard[j].status # "active" )
            => tradeBoard'[k].status = tradeBoard[j].status ]_vars

(* A listing that its seller cancelled has become sold *)
C21_Witness ==
    /\ BuySettling
    /\ ListingOf(act.board, act.req.listingId).status = "cancelled"
    /\ ListingOf(tradeBoard, act.req.listingId).status = "sold"
    /\ act.sellerAfter.gold = act.seller.gold + ListingOf(act.board, act.req.listingId).price



----------------------------------------------------------------------------
(* Properties of timed buffs and charms *)

BuffKinds == {"xp", "value"}

GrantsOf(scopedKey, kind) ==
    MapGetList(IF kind = "xp" THEN xpBuffTimers ELSE valueBuffTimers, scopedKey)

(* A grant is unexpired until its end time, and no later than its timer runs *)
Unexpired(grant) == grant.endsAt > now \/ \E t \in timers : t.id = grant.timer

UnexpiredGrants(scopedKey, kind) == SelectSeq(GrantsOf(scopedKey, kind), Unexpired)

Aggregate(grants) ==
    IF grants = <<>> THEN undefined
    ELSE [amount |-> SumOfAmounts(grants), expiresAt |-> MaxEndsAt(grants)]

Published(scopedKey, kind) == heap[players[scopedKey]].activeBuffs[kind]

(* C22: for each player and each buff kind, at every time the published *)
(* activeBuffs entry is the aggregate of the unexpired grants: the sum  *)
(* of their amounts and the latest of their end times, and it is absent *)
(* exactly when there is no unexpired grant.                            *)
C22_PublishedIsAggregate ==
    \A scopedKey \in DOMAIN players : \A kind \in BuffKinds :
        Published(scopedKey, kind) = Aggregate(UnexpiredGrants(scopedKey, kind))

(* A record read from a save carries an entry that no grant stands behind *)
C22_Witness ==
    /\ act.name = "LoadDone"
    /\ \E scopedKey \in DOMAIN players :
          /\ Published(scopedKey, "value") # undefined
          /\ UnexpiredGrants(scopedKey, "value") = <<>>


AmountOf(entry) == IF entry = undefined THEN 0 ELSE entry.amount

(* The timer t of a timed-buff grant fires in this step *)
BuffTimerFires(t) ==
    /\ t \in DueTimers
    /\ t.kind = "buff"
    /\ act'.name = "TimerFire"
    /\ act'.timer = t

(* The grants of the timer's kind that its player holds and that neither *)
(* belong to the timer nor have reached their end time                   *)
OtherUnexpired(t) ==
    SelectSeq(GrantsOf(heap[t.closure.state].scopedKey, t.closure.kind),
              LAMBDA e : e.timer # t.id /\ e.endsAt > now)

GoneWith(t) ==
    SelectSeq(GrantsOf(heap[t.closure.state].scopedKey, t.closure.kind),
              LAMBDA e : e.timer = t.id \/ e.endsAt <= now)

(* C23: when the timer of one timed-buff grant fires, only that grant  *)
(* leaves: every other unexpired grant of the kind stays, and the      *)
(* player's effective amount goes down by exactly the amount of what   *)
(* has expired.                                                        *)
C23_OnlyTheExpiredGrantLeaves ==
    [][\A t \in timers :
          BuffTimerFires(t) =>
              \E scopedKey \in { heap[t.closure.state].scopedKey } :
                  /\ GrantsOf(scopedKey, t.closure.kind)' = OtherUnexpired(t)
                  /\ scopedKey \in DOMAIN players
                  /\ AmountOf(Published(scopedKey, t.closure.kind)')
                       = AmountOf(Published(scopedKey, t.closure.kind))
                         - SumOfAmounts(GoneWith(t))]_vars

(* A grant's timer has fired while another grant of the kind goes on *)
C23_Witness ==
    /\ act.name = "TimerFire"
    /\ act.timer.kind = "buff"
    /\ \E scopedKey \in DOMAIN players :
          /\ GrantsOf(scopedKey, act.timer.closure.kind) # <<>>
          /\ Published(scopedKey, act.timer.closure.kind) # undefined


PendingCharmTimers(scopedKey) ==
    { t \in timers : t.kind = "charm" /\ heap[t.closure.state].scopedKey = scopedKey }

CharmDurations == {3 * 60 * 1000, 120000}

(* A player has no more than one pending charm timer, the one charmTimers  *)
(* holds, and the charm of the player's record ends when a pending timer   *)
(* of that record is due                                                   *)
OneCharm ==
    \A scopedKey \in ScopedKeys :
        /\ Cardinality(PendingCharmTimers(scopedKey)) <= 1
        /\ \A t \in PendingCharmTimers(scopedKey) :
              MapHas(charmTimers, scopedKey) /\ charmTimers[scopedKey] = t.id
        /\ MapHas(players, scopedKey) /\ heap[players[scopedKey]].activeCharm # undefined
              => \E t \in PendingCharmTimers(scopedKey) :
                    /\ t.closure.state = players[scopedKey]
                    /\ t.due = heap[players[scopedKey]].activeCharm.expiresAt

(* The charm of a record goes or changes in this step only at its end time *)
(* or because a charm is activated, which then has its whole duration left *)
CharmLastsOrIsReplaced ==
    \A o \in DOMAIN heap :
        /\ heap[o].activeCharm # undefined
        /\ o \in DOMAIN heap'
        /\ heap'[o].activeCharm # heap[o].activeCharm
        => \/ /\ act'.name = "TimerFire"
              /\ now >= heap[o].activeCharm.expiresAt
              /\ heap'[o].activeCharm = undefined
           \/ /\ act'.name \in {"Command", "LoadDone"}
              /\ heap'[o].activeCharm # undefined
              /\ \E d \in CharmDurations : heap'[o].activeCharm.expiresAt = now + d

(* C24: a player has at most one active charm and at most one pending    *)
(* charm timer; activating a charm while another is active cancels the   *)
(* old charm and its timer first, so the old timer never removes the new *)
(* charm and the new charm lasts its own full duration.                  *)
C24_CharmsAreExclusive == [][OneCharm' /\ CharmLastsOrIsReplaced]_vars

(* A charm has been activated while another one was active *)
C24_Witness ==
    /\ act.name = "Command"
    /\ act.payload.command = "use"
    /\ act.before # null
    /\ act.before.activeCharm # undefined
    /\ \E scopedKey \in { KeyOf(act.payload) } :
          /\ heap[players[scopedKey]].activeCharm # undefined
          /\ heap[players[scopedKey]].activeCharm.expiresAt > act.before.activeCharm.expiresAt
          /\ Cardinality(PendingCharmTimers(scopedKey)) = 1


----------------------------------------------------------------------------
(* Properties of global events *)

(* The step taken is a reel that landed its catch: the rewards are paid *)
ReelLanded ==
    /\ Handled("handleReel")
    /\ heap[players[KeyOf(act.payload)]].gold > act.before.gold

BonusCatchCount ==
    Cardinality({ i \in DOMAIN out : out[i] = [type |-> "status", text |-> "double catch bonus"] })

DoubleEvents == SelectSeq(activeEvents, LAMBDA e : e.kind = "double")

(* The step taken started the double event last in the active set, on a *)
(* request of magnitude 10                                              *)
StartedDoubleOfTen ==
    /\ act.name \in {"Command", "LoadDone"}
    /\ act.payload.command = "event"
    /\ act.payload.args = <<"start", "double", "1", "x10">>
    /\ activeEvents # <<>>

(* C25: whatever double events are active and whatever magnitudes were  *)
(* requested, one successful reel grants at most maxDoubleStacks bonus  *)
(* catches; a double event requested with magnitude 10 is held as one   *)
(* of maxDoubleStacks, and on its own it yields exactly that many bonus *)
(* catches.                                                             *)
C25_DoubleClamped ==
    /\ StartedDoubleOfTen =>
          activeEvents[Len(activeEvents)].amount = 100 * maxDoubleStacks
    /\ ReelLanded =>
          /\ BonusCatchCount <= maxDoubleStacks
          /\ Len(DoubleEvents) = 1 /\ DoubleEvents[1].amount = 100 * maxDoubleStacks
                => BonusCatchCount = maxDoubleStacks

(* A reel lands while two double events, of 3 and of 2 stacks, are on *)
C25_Witness ==
    /\ ReelLanded
    /\ Len(DoubleEvents) = 2
    /\ SumDoubleStacks(activeEvents) = 5
    /\ BonusCatchCount = maxDoubleStacks


(* The events on, and the events whose timers are pending *)
ActiveIds == { activeEvents[i].id : i \in DOMAIN activeEvents }

PendingEventIds == { t.closure.id : t \in { u \in timers : u.kind = "event" } }

(* The `events` message for the active set as it is now *)
EventsMessage ==
    [type |-> "events",
     events |-> [i \in 1..Len(activeEvents) |->
                    [id |-> sortByEndsAt(activeEvents)[i].id,
                     kind |-> sortByEndsAt(activeEvents)[i].kind,
                     amount |-> sortByEndsAt(activeEvents)[i].amount,
                     endsAt |-> sortByEndsAt(activeEvents)[i].endsAt]]]

(* The last `events` message of the step tells the set that remains *)
RemainingBroadcast ==
    \E i \in DOMAIN out :
        /\ out[i] = EventsMessage
        /\ \A j \in DOMAIN out : j > i => out[j].type # "events"

(* The step taken is `!event stop` of a moderator *)
EventsStopped ==
    /\ act.name \in {"Command", "LoadDone"}
    /\ act.payload.command = "event"
    /\ act.payload.args = <<"stop">>
    /\ InSeq("handleEventCommand", act.called)

(* The step taken is the expiry callback of an event *)
EventTimerFired == act.name = "TimerFire" /\ act.timer.kind = "event"

StillRunning(events) == SelectSeq(events, LAMBDA e : e.endsAt > now)

(* C26: a stop removes every event and an expiry callback its own event; *)
(* an event that left the active set has no timer pending and the set    *)
(* that remains is broadcast in the step; a reel that lands is paid the  *)
(* bonus catches of the events that have not reached their endsAt only,  *)
(* whether or not the callbacks of the others have run; and every event  *)
(* that is on is removed at some time.                                   *)
C26_EndedEventsAreGone ==
    /\ [][ /\ EventsStopped' =>
                activeEvents' = <<>> /\ PendingEventIds' = {} /\ eventTimers' = EmptyMap
           /\ EventTimerFired' =>
                /\ act'.timer.closure.id \notin ActiveIds'
                /\ ~MapHas(eventTimers', act'.timer.closure.id)
           /\ EventsStopped' \/ EventTimerFired' \/ ActiveIds \ ActiveIds' # {} =>
                RemainingBroadcast'
           /\ PendingEventIds' \subseteq ActiveIds'
           /\ ReelLanded' =>
                /\ activeEvents' = StillRunning(activeEvents)
                /\ BonusCatchCount'
                       = MathMin(maxDoubleStacks, SumDoubleStacks(StillRunning(activeEvents))) ]_vars
    /\ \A id \in { uuidText(n) : n \in 1..MaxCommands } :
           (id \in ActiveIds) ~> (id \notin ActiveIds)

(* A reel lands at the endsAt of a double event whose callback has not run: *)
(* the event is ended in passing and no bonus catch is paid                 *)
C26_Witness ==
    /\ ReelLanded
    /\ InSeq([type |-> "status", text |-> "Event ended"], out)
    /\ RemainingBroadcast
    /\ activeEvents = <<>>
    /\ BonusCatchCount = 0


----------------------------------------------------------------------------
(* Properties of the store *)

(* The step taken entered the handler fn, at once or after a load *)
Entered(fn) == act.name \in {"Command", "LoadDone"} /\ InSeq(fn, act.called)

(* What currentStoreItems looks at, as the state stands *)
StoreFingerprint ==
    storeVersionKey(getCatalogSnapshot(Cur), getStoreConfig(getCatalogSnapshot(Cur)))

RotationCached ==
    /\ storeRotation # null
    /\ storeRotationVersion = StoreFingerprint
    /\ now < storeRotation.expiresAt

(* The selections the draws of the model can yield *)
Selections ==
    { pickStoreItems(getCatalogSnapshot(Cur), getStoreConfig(getCatalogSnapshot(Cur)), p)
        : p \in DrawnPicks }

Offers(items, key) == \E i \in 1..Len(items) : items[i].key = key

AliceKey == <<"x", "alice">>

(* Alice's inventory grew in the step *)
AliceBought ==
    /\ act.name = "Command"
    /\ act.before # null
    /\ Len(heap[players[AliceKey]].inventory) > Len(act.before.inventory)

(* C27: a call of currentStoreItems leaves the rotation and its          *)
(* fingerprint as they are and returns the cached items when the         *)
(* fingerprint is the one cached and now is before the cached expiry;    *)
(* otherwise it caches a newly drawn selection under the fingerprint of  *)
(* the moment, to expire one rotation window from now, and returns that. *)
(* handleBuy calls it for an item that is no upgrade and sells the       *)
(* player what it returns; handleStore calls it when no rotation is      *)
(* cached.                                                               *)
C27_RotationCachedByFingerprint ==
    [][ /\ Entered("handleBuy")' =>
            /\ IF RotationCached
               THEN UNCHANGED <<storeRotation, storeRotationVersion>>
               ELSE /\ storeRotation'.items \in Selections
                    /\ storeRotation'.expiresAt
                           = now + getStoreConfig(getCatalogSnapshot(Cur)).rotationMs
                    /\ storeRotationVersion' = StoreFingerprint
            /\ act'.name = "Command" =>
                  (AliceBought' <=> Offers(storeRotation'.items, "hook-stabilizer"))
        /\ Entered("handleStore")' =>
            IF storeRotation # null
            THEN UNCHANGED <<storeRotation, storeRotationVersion>>
            ELSE /\ storeRotation'.items \in Selections
                 /\ storeRotation'.expiresAt
                        = now + getStoreConfig(getCatalogSnapshot(Cur)).rotationMs
                 /\ storeRotationVersion' = StoreFingerprint ]_vars

(* Alice is sold a Hook Stabilizer out of a selection drawn in the step, *)
(* hours after her refresh of the store, under the built-in catalog: the *)
(* rotation she had drawn has expired                                    *)
C27_Witness ==
    /\ Entered("handleBuy")
    /\ AliceBought
    /\ catalogOverrides = null
    /\ MapHas(lastStoreRefresh, AliceKey)
    /\ lastStoreRefresh[AliceKey] < now
    /\ storeRotation.expiresAt = now + defaultStoreConfig.rotationHours * 60 * 60 * 1000


(* The step taken ran a manual refresh of the store, from chat or from *)
(* the panel, for the player who sent it                               *)
RefreshAsked ==
    /\ act.name \in {"Command", "LoadDone", "PanelStoreRefresh", "PanelStoreRefreshLoadDone"}
    /\ InSeq("handleStoreRefresh", act.called) \/ InSeq("panelStoreRefresh", act.called)

RefreshDone == InSeq([type |-> "status", text |-> "refreshed the store"], out)

RefreshRejected == InSeq([type |-> "status", text |-> "store refresh on cooldown"], out)

(* C28: the first manual refresh of a player is carried out, whatever   *)
(* the other players have done: the rotation gets a newly drawn         *)
(* selection and the player's refresh time is now.  A refresh less than *)
(* 8h after the player's last one is rejected with a status line and    *)
(* leaves the rotation, its fingerprint and every refresh time as they  *)
(* are, whether the rotation has expired or not.                        *)
C28_RefreshCooldownPerPlayer ==
    [][ RefreshAsked' =>
          IF ~MapHas(lastStoreRefresh, KeyOf(act'.payload))
          THEN /\ RefreshDone'
               /\ storeRotation'.items \in Selections
               /\ lastStoreRefresh' = MapSet(lastStoreRefresh, KeyOf(act'.payload), now)
          ELSE now - lastStoreRefresh[KeyOf(act'.payload)] < storeRefreshCooldownMs
               => /\ RefreshRejected'
                  /\ ~RefreshDone'
                  /\ UNCHANGED <<storeRotation, storeRotationVersion, lastStoreRefresh>> ]_vars

(* Alice is refused a refresh four hours after her first, the rotation *)
(* having run out, and bob's first refresh had been carried out in     *)
(* between                                                             *)
C28_Witness ==
    /\ RefreshAsked
    /\ RefreshRejected
    /\ KeyOf(act.payload) = AliceKey
    /\ lastStoreRefresh[AliceKey] < now
    /\ storeRotation.expiresAt <= now
    /\ MapHas(lastStoreRefresh, <<"x", "bob">>)
    /\ lastStoreRefresh[<<"x", "bob">>] > lastStoreRefresh[AliceKey]


----------------------------------------------------------------------------
(* Properties of levels *)

(* The xp a level asks for: 100 at level 1, where every player starts and *)
(* where prestige puts them back, and 100 + 30 x level once levelled up   *)
NeedAt(level) == IF level = 1 THEN 100 ELSE 100 + 30 * level

RECURSIVE NeedBelow(_)
NeedBelow(level) == IF level <= 1 THEN 0 ELSE NeedAt(level - 1) + NeedBelow(level - 1)

(* All the xp a record has been granted since level 1 *)
XpTotal(state) == state.xp + NeedBelow(state.level)

(* The record object o held before the step; an object the step created *)
(* starts from the player's save file                                    *)
RecordBefore(o) ==
    IF o \in DOMAIN heap THEN heap[o]
    ELSE IF MapHas(saved, heap'[o].scopedKey) THEN saved[heap'[o].scopedKey]
    ELSE baseState(heap'[o].username, heap'[o].scopedKey)

StatusSent(text) == InSeq([type |-> "status", text |-> text], out)

(* The calls of handleReel, for object o, that the step left waiting for *)
(* savePlayer                                                            *)
ReelsLanded(o) ==
    { i \in DOMAIN inflight' :
        /\ "locals" \in DOMAIN inflight'[i]
        /\ inflight'[i].state = o
        /\ ~InSeq(inflight'[i], inflight) }

EchoLanded == StatusSent("Echo Reel landed a bonus")

(* The xp the step granted to object o, none if it left o as it was, *)
(* and otherwise read off what the step reports:                     *)
(* the xpGained of the catch, 20 for a legacy upgrade item, 35 for a    *)
(* Treasure Map in the cove                                             *)
XpGranted(o) ==
    IF o \in DOMAIN heap /\ heap'[o] = heap[o] THEN 0
    ELSE IF ReelsLanded(o) # {} THEN inflight'[CHOOSE i \in ReelsLanded(o) : TRUE].locals.xpGained
    ELSE IF StatusSent("gained 20xp")' THEN 20
    ELSE IF StatusSent("followed the Treasure Map")' THEN 35
    ELSE 0

(* C29: whenever a step is over, every cached record has xp below its    *)
(* xpNeeded.  A step that grants g xp to a record takes the record up k  *)
(* levels, k >= 0, with xp' = xp + g less the xpNeeded of each level     *)
(* left, in order, the first being the record's old xpNeeded, and, when  *)
(* k > 0, xpNeeded' = 100 + 30 x level'; k is at most (xp + g) / 100, so *)
(* the loop ends.  Catches, Treasure Maps and legacy upgrade items are   *)
(* checked against the xp they report, an Echo Reel's bonus catch        *)
(* against some positive grant.                                          *)
C29_LevelUpLoop ==
    [][ \A o \in DOMAIN heap' :
          LET before == RecordBefore(o)
              after == heap'[o]
              k == after.level - before.level
              g == XpTotal(after) - XpTotal(before)
          IN /\ 0 <= after.xp /\ after.xp < after.xpNeeded
             /\ k >= 0
             /\ before.xpNeeded = NeedAt(before.level)
             /\ after.xpNeeded = NeedAt(after.level)
             /\ k = 0 => after.xpNeeded = before.xpNeeded
             /\ k <= (before.xp + g) \div 100
             /\ IF EchoLanded' /\ (o \in DOMAIN heap => heap'[o] # heap[o])
                THEN g > 0
                ELSE g = XpGranted(o) ]_vars

(* A relic catch took Alice from level 1 up three levels at once *)
C29_Witness ==
    /\ act.name = "Command"
    /\ act.payload.command = "reel"
    /\ act.before # null
    /\ act.before.level = 1
    /\ \E o \in DOMAIN heap : heap[o].level = 4 /\ heap[o].xpNeeded = 220


----------------------------------------------------------------------------
(* Properties of refusals *)

(* What a refusal is to leave alone *)
Holdings(state) ==
    [gold |-> state.gold, inventory |-> state.inventory, materials |-> state.materials,
     essences |-> state.essences, level |-> state.level, biome |-> state.biomeKey,
     stabilizerCharges |-> state.stabilizerCharges,
     echoReelCharges |-> state.echoReelCharges,
     upgradeCharges |-> state.upgradeCharges]

(* The command asks for something the record `state` cannot give: an item *)
(* it does not hold, a voyage down from the starting waters, an upgrade   *)
(* it cannot pay                                                          *)
CannotBeDone(state, payload) ==
    /\ Len(payload.args) > 0
    /\ LET query == toLowerCase(payload.args[1])
           held == findIndexByName(state.inventory, query) # 0
       IN CASE payload.command = "use" ->
                   \/ ~held
                   \/ query = "waypoint charter" /\ prevBiome(getBiome(state)) = undefined
            [] payload.command = "sell" -> query # "all" /\ ~held
            [] payload.command = "buy" ->
                   \E i \in 1..Len(baseUpgrades) :
                       baseUpgrades[i].key = query /\ state.gold < baseUpgrades[i].cost
            [] OTHER -> FALSE

(* The step ran handleUse, handleSell or handleBuy on the cached record of *)
(* the sender                                                              *)
HandledCached ==
    /\ act.name = "Command"
    /\ act.before # null
    /\ \E fn \in {"handleUse", "handleSell", "handleBuy"} : InSeq(fn, act.called)

StoreRefusals == { "Item not available right now", "Level required", "Not enough inventory space",
                   "Not enough gold" }

Refused ==
    /\ HandledCached
    /\ \/ CannotBeDone(act.before, act.payload)
       \/ \E text \in StoreRefusals : StatusSent(text)

SenderNow == heap[players[KeyOf(act.payload)]]

(* C30: a buy, sell or use that cannot be done is answered with a status *)
(* line and leaves the sender's gold, inventory, materials, essences,    *)
(* level, biome and charges as they were                                 *)
C30_RefusalsChangeNothing ==
    Refused =>
        /\ \E i \in DOMAIN out : out[i].type = "status"
        /\ Holdings(SenderNow) = Holdings(act.before)

(* A Waypoint Charter used in the starting waters is gone from the bag *)
C30_Witness ==
    /\ HandledCached
    /\ act.payload.command = "use"
    /\ StatusSent("already at the starting waters")
    /\ Len(SenderNow.inventory) < Len(act.before.inventory)
    /\ SenderNow.biomeKey = act.before.biomeKey


----------------------------------------------------------------------------
(* Properties of persistence *)

(* The step ran a command on the cached record of its sender and the *)
(* handler returned within the step; nothing is left in flight       *)
CompletedOnCached ==
    /\ act.name = "Command"
    /\ act.before # null
    /\ act.called # <<>>
    /\ inflight = <<>>

ChangedPersisted == ensurePublic(SenderNow) # ensurePublic(act.before)

StoredIsCurrent ==
    /\ MapHas(saved, KeyOf(act.payload))
    /\ saved[KeyOf(act.payload)] = ensurePublic(SenderNow)

(* C31: a command that has changed a persisted field of its sender's   *)
(* record has, when its handler is over, written the record: the file  *)
(* of the player holds what the record holds                           *)
C31_ChangesAreWritten ==
    (CompletedOnCached /\ ChangedPersisted) => StoredIsCurrent

(* Alice paid for an upgrade and her file still shows the gold she had *)
C31_Witness ==
    /\ CompletedOnCached
    /\ act.payload.command = "buy"
    /\ SenderNow.gold < act.before.gold
    /\ MapHas(saved, AliceKey)
    /\ saved[AliceKey].gold = 200


----------------------------------------------------------------------------
(* Properties of reset-profile *)

ResetRan == InSeq("handleResetProfile", act.called)

ResetPrivileged == ResetRan /\ (act.payload.isMod \/ act.payload.isBroadcaster)

(* The player the reset names, the caller when it names none *)
ResetTarget(payload) ==
    ids(IF Len(payload.args) > 0 THEN payload.args[1] ELSE payload.username, payload.channel)

(* The record cached for every player is the object it was *)
RecordsStay == \A k \in DOMAIN players : MapHas(players', k) /\ players'[k] = players[k]

RecordsUntouched ==
    /\ \A o \in (DOMAIN heap) \cap (DOMAIN heap') : heap'[o] = heap[o]
    /\ \A k \in DOMAIN players :
           k # KeyOf(act'.payload) => MapHas(players', k) /\ players'[k] = players[k]
    /\ saved' = saved

ResetDone ==
    LET target == ResetTarget(act'.payload)
    IN /\ MapHas(players', target.scopedKey)
       /\ players'[target.scopedKey] \notin DOMAIN heap
       /\ heap'[players'[target.scopedKey]] = baseState(target.safeUser, target.scopedKey)
       /\ \A t \in timers' : t.kind \in {"tug", "decay", "charm"}
                               => heap'[t.closure.state].scopedKey # target.scopedKey
       /\ ~MapHas(tugTimers', target.scopedKey)
       /\ ~MapHas(decayTimers', target.scopedKey)
       /\ ~MapHas(charmTimers', target.scopedKey)
       /\ interactionLock' = null \/ interactionLock'.scopedKey # target.scopedKey

(* C32: a reset-profile of a caller who is neither moderator nor         *)
(* broadcaster changes no record.  One of a moderator or broadcaster     *)
(* caches a new record for the target that is the default state (gold    *)
(* 25, level 1, empty inventory, cap 15, not casting), cancels the       *)
(* target's tug, decay and charm timers and frees the interaction lock   *)
(* if the target held it.  No other step takes a cached record out of    *)
(* the cache or puts another in its place.                               *)
C32_OnlyResetProfileResets ==
    [][ /\ (ResetRan' /\ ~ResetPrivileged') => RecordsUntouched
        /\ ResetPrivileged' => ResetDone
        /\ ~ResetPrivileged' => RecordsStay ]_vars

(* bob has reset Alice, whose record was cached *)
C32_Witness ==
    /\ ResetPrivileged
    /\ act.name = "Command"
    /\ MapHas(players, AliceKey)
    /\ heap[players[AliceKey]] = baseState("alice", AliceKey)
    /\ interactionLock = null
    /\ timers = {}
    /\ Len(inflight) = 1

(**************************************************************************)
(* Properties of concurrent session openings                              *)
(**************************************************************************)

(* The pending expiry timers of the interaction lock *)
LockTimers == { t \in timers : t.kind = "lock" }

(* The load of a session-opening command completes while a player other *)
(* than its sender holds the slot                                       *)
SecondOpenerArrives ==
    /\ act'.name = "LoadDone"
    /\ act'.payload.command \in SessionCommands
    /\ HeldByOther(act'.payload)

(* C33: when two players' store, upgrades or inventory commands were both *)
(* admitted while the slot was free and are both suspended in loadPlayer, *)
(* the call whose load completes first becomes the holder; when the load  *)
(* of the other completes, the holder stays who it is, and at no time is  *)
(* more than one expiry timer of the lock pending.                        *)
C33_FirstOpenerKeepsSlot ==
    /\ [](Cardinality(LockTimers) <= 1)
    /\ [][ SecondOpenerArrives
           => ( /\ interactionLock' # null
                /\ interactionLock'.scopedKey = interactionLock.scopedKey ) ]_vars

(* The second opener's load has completed: it holds the slot and two *)
(* expiry timers are pending                                         *)
C33_Witness ==
    /\ act.name = "LoadDone"
    /\ act.payload.command \in SessionCommands
    /\ interactionLock # null
    /\ interactionLock.scopedKey = KeyOf(act.payload)
    /\ Cardinality(LockTimers) = 2

(**************************************************************************)
(* Properties of concurrent trades                                        *)
(**************************************************************************)

(* How many copies of the listing's item the cached record of a player *)
(* holds                                                               *)
CopiesHeld(scopedKey, entry) ==
    IF MapHas(players, scopedKey)
    THEN Cardinality({ i \in DOMAIN heap[players[scopedKey]].inventory :
                          heap[players[scopedKey]].inventory[i] = entry.item })
    ELSE 0

RECURSIVE CopiesIn(_, _)
CopiesIn(keys, entry) ==
    IF keys = {} THEN 0
    ELSE LET k == CHOOSE k \in keys : TRUE
         IN CopiesHeld(k, entry) + CopiesIn(keys \ {k}, entry)

(* The last step took the price of a listing from the buyer *)
BuyerDebited == BuyStep /\ act.after.gold < act.before.gold

(* C34: whatever the order in which the buys and cancels of one listing  *)
(* run and resume, the players' records hold at most one copy of the     *)
(* listed item between them (one buyer's, or the seller's after the      *)
(* refund), none while the listing is active, and a step debits a buyer  *)
(* only for a listing that was active until then, so the price is paid   *)
(* at most once.                                                         *)
C34_DeliveredAndPaidOnce ==
    /\ \A j \in DOMAIN tradeBoard :
          CopiesIn(DOMAIN players, tradeBoard[j])
              <= (IF tradeBoard[j].status = "active" THEN 0 ELSE 1)
    /\ BuyerDebited => ListingOf(act.board, act.req.listingId).status = "active"

(* The same listing has been paid for twice: the second buy settles a *)
(* listing already sold, and the buyer holds the item twice           *)
C34_Witness ==
    /\ BuySettling
    /\ BuyerDebited
    /\ ListingOf(act.board, act.req.listingId).status = "sold"
    /\ CopiesIn(DOMAIN players, ListingOf(tradeBoard, act.req.listingId)) = 2

(**************************************************************************)
(* Properties of the cast states                                          *)
(**************************************************************************)

(* A timer of the kind is pending for the player of scopedKey *)
TimerPending(kind, scopedKey) ==
    \E t \in timers : t.kind = kind /\ heap[t.closure.state].scopedKey = scopedKey

(* C35: for every player's record: hasTug implies isCasting; a pending tug *)
(* timer of the player implies isCasting and not hasTug; isCasting implies *)
(* a pending decay timer of the player.                                    *)
C35_CastStates ==
    \A k \in DOMAIN players :
        LET state == heap[players[k]]
        IN /\ state.hasTug => state.isCasting
           /\ TimerPending("tug", k) => (state.isCasting /\ ~state.hasTug)
           /\ state.isCasting => TimerPending("decay", k)

(* A tug timer of Alice's is pending while the record cached for her is *)
(* not casting                                                          *)
C35_Witness ==
    /\ MapHas(players, AliceKey)
    /\ ~heap[players[AliceKey]].isCasting
    /\ TimerPending("tug", AliceKey)
    /\ MapHas(tugTimers, AliceKey)

(**************************************************************************)
(* Properties of the session's expiry                                     *)
(**************************************************************************)

(* The timer the lock names is pending *)
ExpiryPending == \E t \in LockTimers : t.id = interactionLock.timer

(* A callback of an expiry timer is about to destroy the lock *)
ExpiryDestroysLock ==
    /\ act'.name = "TimerFire"
    /\ act'.timer.kind = "lock"
    /\ interactionLock # null
    /\ interactionLock' = null

(* C36: while the lock exists its expiry timer is pending; every session *)
(* that was opened is closed in the end, whatever the holder does; and   *)
(* an expiry timer destroys the lock no earlier than the lock's          *)
(* expiresAt.                                                            *)
C36_SessionsExpireOnTime ==
    /\ [](interactionLock # null => ExpiryPending)
    /\ (interactionLock # null) ~> (interactionLock = null)
    /\ [][ExpiryDestroysLock => now >= interactionLock.expiresAt]_vars

(* An expiry timer has closed a session that had time left *)
C36_Witness ==
    /\ act.name = "TimerFire"
    /\ act.timer.kind = "lock"
    /\ interactionLock = null
    /\ LockTimers # {}
    /\ \E i \in DOMAIN out : out[i] = [type |-> "status", text |-> "closed after inactivity"]

(**************************************************************************)
(* Properties of expired listings                                         *)
(**************************************************************************)

(* How many copies of the item the records cached in p, on the heap h, *)
(* hold between them                                                   *)
RECURSIVE CopiesAmong(_, _, _, _)
CopiesAmong(keys, h, p, item) ==
    IF keys = {} THEN 0
    ELSE LET k == CHOOSE k \in keys : TRUE
         IN Cardinality({ i \in DOMAIN h[p[k]].inventory : h[p[k]].inventory[i] = item })
            + CopiesAmong(keys \ {k}, h, p, item)

(* The step about to be taken runs pruneTradeBoard: the read of the board *)
(* completes, or a request finds the board loaded                         *)
Prunes ==
    \/ act'.name \in {"BoardReadDone", "PanelDataBoardReadDone"}
    \/ /\ act'.name \in {"PanelRequest", "PanelDataLoadDone"}
       /\ tradeLoadedChan = Some(toLowerCase(act'.req.channel))
    \/ /\ act'.name = "PanelData"
       /\ tradeLoadedChan = Some(toLowerCase(act'.req.channel))
       /\ MapHas(players, ids(act'.req.username, act'.req.channel).scopedKey)

(* No listing past its expiresAt is active once the step is taken *)
PassedAreMarked ==
    \A k \in DOMAIN tradeBoard' :
        tradeBoard'[k].expiresAt <= now => tradeBoard'[k].status # "active"

(* The board a snapshot for the panel carries holds active, unexpired *)
(* listings only                                                      *)
PanelBoardIsActive ==
    \A i \in DOMAIN out :
        out[i].type = "panel"
        => \A k \in DOMAIN out[i].tradeBoard :
              /\ out[i].tradeBoard[k].status = "active"
              /\ out[i].tradeBoard[k].expiresAt > now

(* A listing that is marked expired stays so, and no record gains its item *)
ExpiredAreInert ==
    \A j \in DOMAIN tradeBoard :
        tradeBoard[j].status = "expired"
        => /\ \A k \in DOMAIN tradeBoard' :
                 tradeBoard'[k].id = tradeBoard[j].id => tradeBoard'[k].status = "expired"
           /\ CopiesAmong(DOMAIN players', heap', players', tradeBoard[j].item)
                 <= CopiesAmong(DOMAIN players, heap, players, tradeBoard[j].item)

(* The listings the step finds: those read from disk when the read of the *)
(* board completes, those in memory otherwise                             *)
BoardFound ==
    IF act'.name \in {"BoardReadDone", "PanelDataBoardReadDone"}
    THEN LET path == tradeStorePathForChannel(act'.req.channel)
         IN IF MapHas(saved, path) THEN saved[path] ELSE <<>>
    ELSE tradeBoard

(* Every active, unexpired listing the step finds is on the board after it *)
ActiveAreKept ==
    \A j \in DOMAIN BoardFound :
        ( BoardFound[j].status = "active" /\ BoardFound[j].expiresAt > now )
        => \E k \in DOMAIN tradeBoard' : tradeBoard'[k].id = BoardFound[j].id

(* C37: a prune marks every listing past its expiresAt expired; the board *)
(* returned to the panel holds active, unexpired listings only; a listing *)
(* marked expired stays expired and no player's record gains its item,    *)
(* whatever buys and cancels are under way; and a prune, also one of a    *)
(* board past the size limit, removes no active listing.                  *)
C37_ExpiredListingsAreInert ==
    /\ []PanelBoardIsActive
    /\ [][ /\ Prunes => PassedAreMarked
           /\ ExpiredAreInert
           /\ ActiveAreKept ]_vars

(* A buy has settled a listing that was marked expired while the buy *)
(* waited for the seller's record                                    *)
C37_Witness ==
    /\ BuySettling
    /\ ListingOf(act.board, act.req.listingId).status = "expired"
    /\ ListingOf(tradeBoard, act.req.listingId).status = "sold"
    /\ act.after.gold < act.before.gold

----------------------------------------------------------------------------
(* Properties of the presented rotation *)

(* The store events of the step that present a rotation *)
PresentedStoreEvents ==
    { out[i] : i \in { j \in 1..Len(out) : /\ out[j].type = "store"
                                           /\ "expiresAt" \in DOMAIN out[j] } }

StoreShown == Entered("handleStore") \/ Entered("handleUpgrades")

(* C38: a store event emitted by the store or the upgrades command       *)
(* presents a rotation that has not expired when it is emitted, and the  *)
(* rotation it presents is the one a buy that follows resolves names     *)
(* against: the cached rotation, cached under the fingerprint of the     *)
(* moment and not expired, which currentStoreItems returns as it is.     *)
C38_StoreEventsPresentCurrentRotation ==
    StoreShown =>
        \A e \in PresentedStoreEvents :
            /\ e.expiresAt > now
            /\ e.expiresAt = storeRotation.expiresAt
            /\ RotationCached

(* bob is shown the store hours after the rotation on show was drawn *)
C38_Witness ==
    /\ StoreShown
    /\ PresentedStoreEvents # {}
    /\ \E e \in PresentedStoreEvents : e.user = "bob" /\ e.expiresAt <= now

----------------------------------------------------------------------------
(* Properties of prestige *)

CachedKeys == DOMAIN players

(* The count is one of 0..3 and the unlocks are those of the count and *)
(* of every count below it                                             *)
Ranked(state) ==
    /\ state.prestigeCount \in 0..3
    /\ state.enchantmentsUnlocked => state.tradingUnlocked
    /\ state.tradingUnlocked => state.craftingUnlocked
    /\ state.craftingUnlocked <=> state.prestigeCount >= 1
    /\ state.tradingUnlocked <=> state.prestigeCount >= 2
    /\ state.enchantmentsUnlocked <=> state.prestigeCount >= 3

(* The step raised the prestige count of record o *)
Prestiged(o) ==
    /\ o \in (DOMAIN heap) \cap (DOMAIN heap')
    /\ heap'[o].prestigeCount # heap[o].prestigeCount

PrestigePaid(o) ==
    /\ InSeq("handleBuy", act'.called)
    /\ heap[o].level >= 60
    /\ heap[o].gold >= prestigeCost(heap[o].prestigeCount + 1)
    /\ heap'[o].gold = heap[o].gold - prestigeCost(heap[o].prestigeCount + 1)
    /\ heap'[o].prestigeCount = heap[o].prestigeCount + 1
    /\ heap'[o].level = 1
    /\ heap'[o].xp = 0
    /\ heap'[o].xpNeeded = 100

(* The record cached for k has every unlock and prestige it had *)
UnlocksKept(k) ==
    MapHas(players', k) =>
        LET old == heap[players[k]]
            new == heap'[players'[k]]
        IN /\ old.craftingUnlocked => new.craftingUnlocked
           /\ old.tradingUnlocked => new.tradingUnlocked
           /\ old.enchantmentsUnlocked => new.enchantmentsUnlocked

ResetOf(k) == ResetPrivileged' /\ ResetTarget(act'.payload).scopedKey = k

(* C39: the prestige count of every cached player is one of 0..3, and    *)
(* crafting, trading and enchantments are unlocked from the first, the   *)
(* second and the third prestige on, so that enchantments imply trading  *)
(* and trading implies crafting.  A step that changes a record's count   *)
(* is a purchase by a player of level 60 or more who holds the gold of   *)
(* the token: it takes the gold, adds one to the count and puts the      *)
(* player back at level 1 with 0 xp of 100.  No step but a reset-profile *)
(* of the player takes an unlock from the record cached for a player.    *)
C39_PrestigeIsProgressive ==
    /\ [](\A k \in CachedKeys : Ranked(heap[players[k]]))
    /\ [][ /\ \A o \in DOMAIN heap : Prestiged(o) => PrestigePaid(o)
           /\ \A k \in CachedKeys : ~ResetOf(k) => UnlocksKept(k) ]_vars

(* Alice bought her third prestige *)
C39_Witness ==
    /\ InSeq("handleBuy", act.called)
    /\ MapHas(players, AliceKey)
    /\ heap[players[AliceKey]].prestigeCount = 3
    /\ heap[players[AliceKey]].enchantmentsUnlocked
    /\ heap[players[AliceKey]].level = 1
    /\ heap[players[AliceKey]].gold = 0

----------------------------------------------------------------------------
(* Properties of the per-player cooldown on dispatch *)

FishingCommands == {"cast", "reel"}

(* The command of the step fails no gate and is neither a fishing nor a *)
(* privileged command                                                   *)
PlainCommandAdmitted ==
    /\ act'.name = "Command"
    /\ FirstFailingGate(act'.payload) = "none"
    /\ act'.payload.command \notin FishingCommands \cup PrivilegedCommands

(* C40: when a command that is neither a fishing nor a privileged command *)
(* passes every gate and is dispatched, the time of the dispatch becomes  *)
(* the sender's cooldown timestamp, so that the sender's next             *)
(* non-privileged command within userCommandCooldownMs is turned away.    *)
C40_DispatchStartsCooldown ==
    [][ /\ PlainCommandAdmitted
           => /\ MapHas(lastCommandAt', KeyOf(act'.payload))
              /\ lastCommandAt'[KeyOf(act'.payload)] = now
        /\ ( /\ act'.name = "Command"
             /\ act'.payload.command \notin PrivilegedCommands
             /\ MapHas(lastCommandAt, KeyOf(act'.payload))
             /\ now - lastCommandAt[KeyOf(act'.payload)] < userCommandCooldownMs
             /\ FirstFailingGate(act'.payload) \in {"cooldown", "panel", "none"} )
           => Rejections = { GateText.cooldown } ]_vars

(* Alice's store command from the panel was dispatched and has left her *)
(* without a cooldown timestamp                                         *)
C40_Witness ==
    /\ act.name = "Command"
    /\ act.payload.command = "store"
    /\ act.payload.fromPanel
    /\ InSeq("handleStore", act.called)
    /\ ~MapHas(lastCommandAt, KeyOf(act.payload))
    /\ userCommandCooldownMs > 0

====
